---- MODULE Spec2Model ----
(***************************************************************************)
(* The Linux bridge network driver (package bridge): the driver, its        *)
(* single network, the endpoint table, and the kernel / allocator / port    *)
(* mapper state its operations program.  Every public operation is a        *)
(* sequence of steps of a thread; a step is one critical section of a       *)
(* mutex or one external call (netlink, IP allocator, port mapper), which   *)
(* is the granularity at which the Go code can be interleaved.              *)
(***************************************************************************)
EXTENDS Integers, Sequences, FiniteSets, Bags, TLC

(* ------------------------------ bounds --------------------------------- *)
\* Width in bits of the modelled IPv4 address space (addresses 0..2^w-1).
AddrBits == 3
\* Host addresses of a wide (prefix <= 80) IPv6 subnet.
NumHosts6 == 2
\* Interface names the random name generator can draw.
NumNames == 4
\* Hardware addresses the random MAC generator can draw.
NumMacs == 2
\* Host ports the port mapper manages.
MaxPort == 2
\* Heap cells for bridgeNetwork and bridgeEndpoint objects.
MaxNetH == 3
MaxEpH == 6
\* Operations invoked in one run by a single caller, and by concurrent callers.
MaxCalls == 5
MaxConcCalls == 3
MaxEpCalls == 4
MaxLinkCalls == 5
MaxCfgCalls == 1
MaxFrameCalls == 5
MaxLockCalls == 3
MaxQueueCalls == 2
MaxLostCalls == 4
MaxOptCalls == 3

(* --------------------------- program constants ------------------------- *)
\* generateIfaceName: attempts per name.
IfaceNameAttempts == 3
\* CreateEndpoint: an IPv6 hint is computed when the prefix length is <= 80.
HintMaxOnes == 80

Nil == "nil"
ThreadIds == {1, 2}
Nids == {"n1", "n2"}
\* The ids networks are created with (endpoint operations may name any of Nids).
CreateNids == {"n1"}
Eids == {"", "e1", "e2"}
RealEids == Eids \ {""}
Names == 1..NumNames
Macs == 1..NumMacs
HostPorts == 1..MaxPort
NetH == 1..MaxNetH
EpH == 1..MaxEpH
Addrs4 == 0..(2^AddrBits - 1)

(* ------------------------------ subnets -------------------------------- *)
\* An IPv4 net.IPNet: an address and a prefix length.  NoNet is the nil pointer.
NoNet == [ip |-> -1, len |-> -1]
Pow2(k) == 2^k
\* net.IPNet.Contains: ip and n.ip agree on the first n.len bits.
Contains(n, ip) ==
  (ip \div Pow2(AddrBits - n.len)) = (n.ip \div Pow2(AddrBits - n.len))
NetBase(n) == (n.ip \div Pow2(AddrBits - n.len)) * Pow2(AddrBits - n.len)
NetLast(n) == NetBase(n) + Pow2(AddrBits - n.len) - 1
NetAddrs(n) == {a \in Addrs4 : Contains(n, a)}
\* An IPv6 subnet: its prefix length and its host addresses.  NoNet6 is nil.
NoNet6 == [ones |-> -1, hosts |-> {}]
BridgeNet6 == [ones |-> 64, hosts |-> 1..NumHosts6]
WideNet6 == [ones |-> 64, hosts |-> 1..NumHosts6]
NarrowNet6 == [ones |-> 96, hosts |-> {1}]
\* The pools of the allocator are keyed by subnet.
Keys6 == {"bridge6", "fixed6"}

(* --------------------------- configuration ----------------------------- *)
BaseConfig ==
  [set |-> TRUE, Mtu |-> 0, AddressIPv4 |-> [ip |-> 1, len |-> 0],
   FixedCIDR |-> NoNet, FixedCIDRv6 |-> NoNet6, EnableIPv6 |-> FALSE,
   EnableIPTables |-> TRUE, EnableICC |-> TRUE, EnableIPForwarding |-> FALSE,
   DefaultGatewayIPv4 |-> -1, DefaultGatewayIPv6 |-> -1]
NoConfig == [BaseConfig EXCEPT !.set = FALSE]
\* The configurations offered to Config; the last three fail validation.
Configs ==
  { BaseConfig,
    [BaseConfig EXCEPT !.FixedCIDR = [ip |-> 4, len |-> 2], !.Mtu = 1500,
                       !.EnableIPForwarding = TRUE, !.DefaultGatewayIPv4 = 1],
    [BaseConfig EXCEPT !.EnableIPv6 = TRUE, !.FixedCIDR = [ip |-> 4, len |-> 2]],
    [BaseConfig EXCEPT !.EnableIPv6 = TRUE, !.FixedCIDRv6 = WideNet6,
                       !.FixedCIDR = [ip |-> 4, len |-> 2], !.DefaultGatewayIPv6 = 1],
    [BaseConfig EXCEPT !.EnableIPv6 = TRUE, !.FixedCIDRv6 = NarrowNet6,
                       !.FixedCIDR = [ip |-> 4, len |-> 2], !.EnableIPTables = FALSE],
    [BaseConfig EXCEPT !.Mtu = -1],
    [BaseConfig EXCEPT !.AddressIPv4 = [ip |-> 1, len |-> 1],
                       !.FixedCIDR = [ip |-> 6, len |-> 2]],
    [BaseConfig EXCEPT !.EnableIPv6 = TRUE, !.DefaultGatewayIPv6 = 1] }

\* The configurations of the driver that concurrent callers start from.
ConcConfigs ==
  { [BaseConfig EXCEPT !.FixedCIDR = [ip |-> 4, len |-> 2], !.Mtu = 1500,
                       !.EnableIPForwarding = TRUE, !.DefaultGatewayIPv4 = 1],
    [BaseConfig EXCEPT !.EnableIPv6 = TRUE, !.FixedCIDR = [ip |-> 4, len |-> 2]] }

\* Validate without the checks of the container sub-CIDR.
Validate_NoContainerSubnetCheck(c) ==
  IF c.Mtu < 0 THEN "ErrInvalidMtu"
  ELSE IF c.AddressIPv4 # NoNet /\ c.DefaultGatewayIPv4 # -1
          /\ ~Contains(c.AddressIPv4, c.DefaultGatewayIPv4)
       THEN "ErrInvalidGateway"
  ELSE IF c.EnableIPv6 /\ c.DefaultGatewayIPv6 # -1
          /\ (c.FixedCIDRv6 = NoNet6 \/ c.DefaultGatewayIPv6 \notin c.FixedCIDRv6.hosts)
       THEN "ErrInvalidGateway"
  ELSE Nil

\* Configuration.Validate: the error it returns, Nil when the configuration is valid.
Validate(c) ==
  IF c.Mtu < 0 THEN "ErrInvalidMtu"
  ELSE IF c.AddressIPv4 # NoNet /\ c.FixedCIDR # NoNet
          /\ ~Contains(c.AddressIPv4, c.FixedCIDR.ip)
       THEN "ErrInvalidContainerSubnet"
  ELSE IF c.AddressIPv4 # NoNet /\ c.FixedCIDR # NoNet
          /\ c.AddressIPv4.len > c.FixedCIDR.len
       THEN "ErrInvalidContainerSubnet"
  ELSE IF c.AddressIPv4 # NoNet /\ c.DefaultGatewayIPv4 # -1
          /\ ~Contains(c.AddressIPv4, c.DefaultGatewayIPv4)
       THEN "ErrInvalidGateway"
  ELSE IF c.EnableIPv6 /\ c.DefaultGatewayIPv6 # -1
          /\ (c.FixedCIDRv6 = NoNet6 \/ c.DefaultGatewayIPv6 \notin c.FixedCIDRv6.hosts)
       THEN "ErrInvalidGateway"
  ELSE Nil

(* ------------------------------- state --------------------------------- *)
VARIABLES
  config,    \* driver.config: NoConfig is nil
  network,   \* driver.network: a bridgeNetwork cell, 0 is nil
  nets,      \* the bridgeNetwork objects: id, bridge interface, endpoints
  eps,       \* the bridgeEndpoint objects: id, config, intf, portMapping
  pool4,     \* ipAllocator: allocated IPv4 addresses of the bridge subnet
  fixed4,    \* ipAllocator: the sub-range registered by setupFixedCIDRv4
  pool6,     \* ipAllocator: allocated IPv6 addresses, per subnet
  ports,     \* portMapper: host ports in use
  links,     \* kernel: the veth pairs
  kbridge,   \* kernel: the bridge device
  th,        \* the threads: operation, arguments, position and locals
  pre,       \* per thread: the shared state when its operation was called
  calls,     \* the operations invoked so far
  rules,     \* firewall: the ACCEPT rules of the links, a bag
  scope      \* the arguments the callers draw from and the number of calls

vars == <<config, network, nets, eps, pool4, fixed4, pool6, ports, links, kbridge, th, pre, calls,
          rules, scope>>

\* bridgeInterface: nil (set = FALSE), else the link handle and cached addresses.
NoBridge ==
  [set |-> FALSE, link |-> FALSE, ipv4 |-> FALSE, ipv6 |-> FALSE,
   gatewayIPv4 |-> -1, gatewayIPv6 |-> -1]
\* A free bridgeNetwork cell.
BlankNet == [id |-> "", bridge |-> NoBridge, endpoints |-> [e \in RealEids |-> 0]]
\* sandbox.Interface: nil (set = FALSE), else the source name and the addresses.
NoIntf == [set |-> FALSE, src |-> 0, dst |-> "", ip4 |-> -1, mask4 |-> -1, ip6 |-> -1, key6 |-> ""]
\* sandbox.Info: nil (set = FALSE), else the endpoints whose interface objects
\* it lists and the gateways (-1 is nil).
NoInfo == [set |-> FALSE, interfaces |-> <<>>, gateway |-> -1, gatewayIPv6 |-> -1]
\* EndpointConfiguration: nil (set = FALSE), else the MAC (0: none) and the
\* requested host port (-1: no PortMap, 0: any port).
NoEpConfig == [set |-> FALSE, pb |-> -1]
BlankEp == [id |-> "", config |-> NoEpConfig, intf |-> NoIntf, portMapping |-> 0]
\* The options CreateEndpoint may be given: nil, well typed, or badly typed.
EpOptions ==
  { [kind |-> "nil", mac |-> 0, pb |-> -1],
    [kind |-> "bad", mac |-> 0, pb |-> -1],
    [kind |-> "ok", mac |-> 1, pb |-> 1],
    [kind |-> "ok", mac |-> 0, pb |-> 0] }

\* The container options of Join and Leave: nil or without GenericData
\* ("nil"), GenericData that cannot be decoded ("bad"), a ContainerConfiguration.
NoCopts == [kind |-> "nil", parents |-> <<>>, children |-> <<>>]
ContainerOptions ==
  { NoCopts,
    [kind |-> "bad", parents |-> <<>>, children |-> <<>>],
    [kind |-> "ok", parents |-> <<"e2">>, children |-> <<"e2">>],
    [kind |-> "ok", parents |-> <<"e1">>, children |-> <<"e2">>] }

\* A thread that runs no operation.
Idle ==
  [pc |-> "idle", op |-> "", nid |-> "", eid |-> "", opts |-> [kind |-> "nil", mac |-> 0, pb |-> -1],
   cfg |-> NoConfig, n |-> 0, ep |-> 0, err |-> Nil, ret |-> Nil, name1 |-> 0, name2 |-> 0,
   host |-> FALSE, sbox |-> FALSE, mac |-> 0, ip4 |-> -1, ip6 |-> -1,
   exists |-> FALSE, inserted |-> FALSE, added |-> FALSE, removed |-> FALSE,
   copts |-> NoCopts, enable |-> FALSE, todo |-> <<>>, undo |-> <<>>, sinfo |-> NoInfo,
   hint |-> 0, held |-> {}, tries |-> 0, gd |-> ""]

Threads == DOMAIN th
\* Whether callers run concurrently.
Conc == Cardinality(DOMAIN th) > 1
\* The arguments operations are invoked with: every kind of argument for a
\* single caller, the well-formed ones for concurrent callers.
SeqScope ==
  [configs |-> Configs, nids |-> Nids, eids |-> Eids, opts |-> EpOptions,
   copts |-> ContainerOptions, calls |-> MaxCalls,
   gds |-> {"config"}]
ConcScope ==
  [configs |-> Configs, nids |-> {"n1"}, eids |-> {"e1"},
   opts |-> {[kind |-> "ok", mac |-> 1, pb |-> 1]}, copts |-> ContainerOptions,
   calls |-> MaxConcCalls,
   gds |-> {"config"}]
\* The configurations a caller may hand to Config: with and without a bridge
\* subnet, a container sub-CIDR inside it, outside it and wider than it, a
\* gateway inside and outside it, and the IPv6 counterparts.
ConfigCandidates ==
  { [BaseConfig EXCEPT !.Mtu = m, !.AddressIPv4 = a, !.FixedCIDR = f, !.DefaultGatewayIPv4 = g,
                       !.EnableIPv6 = e, !.FixedCIDRv6 = f6, !.DefaultGatewayIPv6 = g6] :
      m \in {-1, 0}, a \in {NoNet, [ip |-> 1, len |-> 1]},
      f \in {NoNet, [ip |-> 2, len |-> 2], [ip |-> 6, len |-> 2], [ip |-> 0, len |-> 0]},
      g \in {-1, 1, 5}, e \in BOOLEAN, f6 \in {NoNet6, NarrowNet6}, g6 \in {-1, 1, 2} }
\* One caller that configures the driver.
CfgScope ==
  [configs |-> ConfigCandidates, nids |-> {"n1"}, eids |-> {"e1"},
   opts |-> {[kind |-> "nil", mac |-> 0, pb |-> -1]}, copts |-> {NoCopts}, calls |-> MaxCfgCalls,
   gds |-> {"config"}]
\* One caller that creates and deletes two endpoints with the same options.
FrameScope ==
  [configs |-> Configs, nids |-> {"n1"}, eids |-> {"e1", "e2"},
   opts |-> {[kind |-> "ok", mac |-> 1, pb |-> 1]}, copts |-> {NoCopts}, calls |-> MaxFrameCalls,
   gds |-> {"config"}]
\* The valid configurations with every combination of the flags and values
\* CreateNetwork queues a step for.
QueueConfigs ==
  { c \in { [BaseConfig EXCEPT !.EnableIPv6 = e, !.FixedCIDR = f, !.FixedCIDRv6 = f6,
                               !.EnableIPTables = it, !.EnableIPForwarding = fw,
                               !.DefaultGatewayIPv4 = g, !.DefaultGatewayIPv6 = g6] :
               e \in BOOLEAN, f \in {NoNet, [ip |-> 4, len |-> 2]}, f6 \in {NoNet6, WideNet6},
               it \in BOOLEAN, fw \in BOOLEAN, g \in {-1, 1}, g6 \in {-1, 1} } :
      Validate(c) = Nil }
\* One caller that creates the network of a configured driver.
QueueScope ==
  [configs |-> QueueConfigs, nids |-> {"n1"}, eids |-> {"e1"},
   opts |-> {[kind |-> "nil", mac |-> 0, pb |-> -1]}, copts |-> {NoCopts},
   calls |-> MaxQueueCalls,
   gds |-> {"config"}]
\* Two callers whose steps are the lock operations, the accesses to the
\* guarded fields and the external calls of each operation.
LockScope ==
  [configs |-> ConcConfigs, nids |-> {"n1"}, eids |-> {"e1"},
   opts |-> {[kind |-> "ok", mac |-> 1, pb |-> 1]}, copts |-> {NoCopts}, calls |-> MaxLockCalls,
   gds |-> {"config"}]
\* One caller that creates endpoints with and without port bindings and
\* joins and leaves them.
LinkScope ==
  [configs |-> Configs, nids |-> {"n1"}, eids |-> Eids,
   opts |-> {[kind |-> "nil", mac |-> 0, pb |-> -1], [kind |-> "ok", mac |-> 1, pb |-> 1],
             [kind |-> "ok", mac |-> 0, pb |-> 0]},
   copts |-> ContainerOptions, calls |-> MaxLinkCalls,
   gds |-> {"config"}]
\* Two callers that create and delete one endpoint of one network.
EpScope == [ConcScope EXCEPT !.calls = MaxEpCalls]
\* Two callers that create and delete the network and create an endpoint.
LostScope == [ConcScope EXCEPT !.copts = {NoCopts}, !.calls = MaxLostCalls]
\* The kinds of GenericData a caller may put into the options of Config:
\* none, an options.Generic that decodes or fails to decode, a *Configuration,
\* a value of another type.
GenericData == {"absent", "generic", "genericBad", "config", "other"}
\* One caller that hands Config every kind of options and creates the network.
OptScope ==
  [configs |-> Configs, nids |-> {"n1"}, eids |-> {"e1"},
   opts |-> {[kind |-> "nil", mac |-> 0, pb |-> -1]}, copts |-> {NoCopts},
   calls |-> MaxOptCalls, gds |-> GenericData]
ArgConfigs == scope.configs
ArgGenericData == scope.gds
ArgNids == scope.nids
ArgEids == scope.eids
ArgOpts == scope.opts
ArgCopts == scope.copts
\* What a successful CreateEndpoint on an empty table started from, kept until
\* the operation after it has returned.
NoRt == [set |-> FALSE, eid |-> "", pool4 |-> {}, pool6 |-> [k \in Keys6 |-> {}], ports |-> {}]
\* What a successful Join with ICC disabled started from, kept until the
\* operation after it has returned.
NoJl == [set |-> FALSE, nid |-> "", eid |-> "", copts |-> NoCopts, rules |-> EmptyBag]
NoPre == [taken |-> FALSE, table |-> BlankNet.endpoints, pool4 |-> {}, pool6 |-> [k \in Keys6 |-> {}],
          ports |-> {}, links |-> {}, network |-> 0, rt |-> NoRt, rules |-> EmptyBag, jl |-> NoJl]

Snapshot ==
  [taken |-> TRUE,
   table |-> IF network = 0 THEN BlankNet.endpoints ELSE nets[network].endpoints,
   pool4 |-> pool4, pool6 |-> pool6, ports |-> ports, links |-> links,
   network |-> network, rt |-> NoRt, rules |-> rules, jl |-> NoJl]

InitShared ==
  /\ network = 0
  /\ nets = [h \in NetH |-> BlankNet]
  /\ eps = [h \in EpH |-> BlankEp]
  /\ pool4 = {}
  /\ fixed4 = NoNet
  /\ pool6 = [k \in Keys6 |-> {}]
  /\ ports = {}
  /\ links = {}
  /\ kbridge = [exists |-> FALSE, addr4 |-> FALSE, addr6 |-> FALSE, up |-> FALSE]
  /\ rules = EmptyBag

\* One caller at a time.
Init ==
  /\ config = NoConfig
  /\ InitShared
  /\ th = [t \in {1} |-> Idle]
  /\ pre = [t \in {1} |-> NoPre]
  /\ calls = 0
  /\ scope = SeqScope

\* One caller that configures a new driver.
InitCfg ==
  /\ config = NoConfig
  /\ InitShared
  /\ th = [t \in {1} |-> Idle]
  /\ pre = [t \in {1} |-> NoPre]
  /\ calls = 0
  /\ scope = CfgScope

\* One caller on a driver with any of the valid configurations, on a host
\* where the bridge device does not exist or exists from an earlier run.
InitQueue ==
  /\ config \in QueueConfigs
  /\ network = 0
  /\ nets = [h \in NetH |-> BlankNet]
  /\ eps = [h \in EpH |-> BlankEp]
  /\ pool4 = {}
  /\ fixed4 = NoNet
  /\ pool6 = [k \in Keys6 |-> {}]
  /\ ports = {}
  /\ links = {}
  /\ kbridge \in { [exists |-> FALSE, addr4 |-> FALSE, addr6 |-> FALSE, up |-> FALSE],
                   [exists |-> TRUE, addr4 |-> TRUE, addr6 |-> FALSE, up |-> TRUE] }
  /\ rules = EmptyBag
  /\ th = [t \in {1} |-> Idle]
  /\ pre = [t \in {1} |-> NoPre]
  /\ calls = 0
  /\ scope = QueueScope

\* One caller of a new driver that hands Config every kind of options.
InitOpt ==
  /\ config = NoConfig
  /\ InitShared
  /\ th = [t \in {1} |-> Idle]
  /\ pre = [t \in {1} |-> NoPre]
  /\ calls = 0
  /\ scope = OptScope

\* One caller at a time, on a driver that has been configured.
InitFrame ==
  /\ config \in ConcConfigs
  /\ InitShared
  /\ th = [t \in {1} |-> Idle]
  /\ pre = [t \in {1} |-> NoPre]
  /\ calls = 0
  /\ scope = FrameScope

\* The configurations of the driver that joins and leaves start from: ICC
\* disabled and ICC enabled.
LinkConfigs ==
  { [BaseConfig EXCEPT !.EnableICC = FALSE],
    [BaseConfig EXCEPT !.EnableIPv6 = TRUE, !.FixedCIDRv6 = WideNet6] }
\* One caller at a time, on a driver that has been configured.
InitLink ==
  /\ config \in LinkConfigs
  /\ InitShared
  /\ th = [t \in {1} |-> Idle]
  /\ pre = [t \in {1} |-> NoPre]
  /\ calls = 0
  /\ scope = LinkScope

\* Two callers, every operation concurrently with every other, on a driver
\* that has been configured.
ConcShared ==
  /\ network = 0
  /\ nets = [h \in NetH |-> BlankNet]
  /\ eps = [h \in EpH |-> BlankEp]
  /\ pool4 = {}
  /\ fixed4 = NoNet
  /\ pool6 = [k \in Keys6 |-> {}]
  /\ ports = {}
  /\ links = {}
  /\ kbridge = [exists |-> FALSE, addr4 |-> FALSE, addr6 |-> FALSE, up |-> FALSE]
  /\ rules = EmptyBag
  /\ config \in ConcConfigs
  /\ th = [t \in {1, 2} |-> Idle]
  /\ pre = [t \in {1, 2} |-> NoPre]
  /\ calls = 0
InitConc == ConcShared /\ scope = ConcScope
\* Two callers of CreateNetwork, CreateEndpoint and DeleteEndpoint.
InitEp == ConcShared /\ config.EnableIPv6 /\ scope = EpScope
InitLost == ConcShared /\ config.EnableIPv6 /\ scope = LostScope
\* Two callers of the lock level steps.
InitLock == ConcShared /\ scope = LockScope

Shared == <<config, network, nets, eps, pool4, fixed4, pool6, ports, links, kbridge>>

(* --------------------------- heap management --------------------------- *)
\* The bridgeNetwork cells some pointer refers to.
NetRefs(nw, thr) == ({nw} \cup {thr[t].n : t \in DOMAIN thr}) \ {0}
\* The bridgeEndpoint cells some pointer refers to.
EpRefs(nw, nts, thr) ==
  ({nts[h].endpoints[e] : h \in NetRefs(nw, thr), e \in RealEids}
     \cup {thr[t].ep : t \in DOMAIN thr}) \ {0}
\* A cell no pointer refers to is free (the garbage collector's work).
FreeNetH == NetH \ NetRefs(network, th)
FreeEpH == EpH \ EpRefs(network, nets, th)
NewH(free) == CHOOSE h \in free : \A g \in free : h <= g

\* A nil dereference ends the process: no thread takes a further step.
Running == \A t \in Threads : th[t].pc # "panic"
\* Thread t is at this position, in a running process.
At(t, label) == t \in Threads /\ Running /\ th[t].pc = label

Step(t, r) == th' = [th EXCEPT ![t] = r]
Goto(t, label) == th' = [th EXCEPT ![t].pc = label]
Return(t, e) == th' = [th EXCEPT ![t].pc = "done", ![t].ret = e]

\* The shared state at the call, recorded while a single caller runs (with
\* concurrent callers the state at the call is not what a return compares with).
Snap(t) ==
  pre' = [pre EXCEPT ![t] = IF Conc THEN NoPre
                            ELSE [Snapshot EXCEPT !.rt = pre[t].rt, !.jl = pre[t].jl]]

\* An operation is invoked by idle thread t.
Call(t) ==
  /\ At(t, "idle")
  /\ calls < scope.calls
  /\ calls' = calls + 1
  /\ Snap(t)

(* ------------------------------- Config -------------------------------- *)
\* Config without the check for a stored configuration.
Config_Reconfigure(t) ==
  /\ Call(t)
  /\ \E c \in ArgConfigs :
       LET me == [th[t] EXCEPT !.pc = "done", !.op = "Config", !.cfg = c, !.gd = "config"] IN
       IF Validate(c) # Nil
       THEN /\ Step(t, [me EXCEPT !.ret = Validate(c)])
            /\ UNCHANGED config
       ELSE /\ Step(t, [me EXCEPT !.ret = Nil])
            /\ config' = c
  /\ UNCHANGED <<network, nets, eps, pool4, fixed4, pool6, ports, links, kbridge>>
  /\ UNCHANGED <<rules, scope>>

\* Config that stores the configuration before it validates it.
Config_StoreFirst(t) ==
  /\ Call(t)
  /\ \E c \in ArgConfigs, gd \in ArgGenericData :
       LET me == [th[t] EXCEPT !.pc = "done", !.op = "Config", !.cfg = c, !.gd = gd] IN
       IF config # NoConfig
       THEN /\ Step(t, [me EXCEPT !.ret = "ErrConfigExists"])
            /\ UNCHANGED config
       ELSE IF gd = "absent"
       THEN /\ Step(t, [me EXCEPT !.ret = Nil])
            /\ UNCHANGED config
       ELSE IF gd = "genericBad"
       THEN /\ Step(t, [me EXCEPT !.ret = "GenerateFromModelError"])
            /\ UNCHANGED config
       ELSE IF gd = "other"
       THEN /\ Step(t, [me EXCEPT !.ret = "ErrInvalidDriverConfig"])
            /\ UNCHANGED config
       ELSE /\ Step(t, [me EXCEPT !.ret = Validate(c)])
            /\ config' = c
  /\ UNCHANGED <<network, nets, eps, pool4, fixed4, pool6, ports, links, kbridge>>
  /\ UNCHANGED <<rules, scope>>

\* Lines 146-178: driver.Config.  The options carry no GenericData (nothing is
\* stored, nil is returned), an options.Generic that GenerateFromModel decodes
\* into configuration c or fails on, a *Configuration c, or a value of another
\* type; a decoded configuration is validated and stored.
Config(t) ==
  /\ Call(t)
  /\ \E c \in ArgConfigs, gd \in ArgGenericData :
       LET me == [th[t] EXCEPT !.pc = "done", !.op = "Config", !.cfg = c, !.gd = gd] IN
       IF config # NoConfig
       THEN /\ Step(t, [me EXCEPT !.ret = "ErrConfigExists"])
            /\ UNCHANGED config
       ELSE IF gd = "absent"
       THEN /\ Step(t, [me EXCEPT !.ret = Nil])
            /\ UNCHANGED config
       ELSE IF gd = "genericBad"
       THEN /\ Step(t, [me EXCEPT !.ret = "GenerateFromModelError"])
            /\ UNCHANGED config
       ELSE IF gd = "other"
       THEN /\ Step(t, [me EXCEPT !.ret = "ErrInvalidDriverConfig"])
            /\ UNCHANGED config
       ELSE IF Validate(c) # Nil
       THEN /\ Step(t, [me EXCEPT !.ret = Validate(c)])
            /\ UNCHANGED config
       ELSE /\ Step(t, [me EXCEPT !.ret = Nil])
            /\ config' = c
  /\ UNCHANGED <<network, nets, eps, pool4, fixed4, pool6, ports, links, kbridge>>
  /\ UNCHANGED <<rules, scope>>

(* ---------------------------- CreateNetwork ---------------------------- *)
\* bridgeSetup.queueStep under the condition of the step.
QueueStep(q, condition, fn) == IF condition THEN Append(q, fn) ELSE q
\* The queue of lines 226-273 with setupVerifyAndReconcile queued for a new
\* bridge device too.
BuildQueue_ReconcileAlways(c, bridgeAlreadyExists) ==
  LET q0 == IF ~bridgeAlreadyExists THEN <<"setupDevice", "setupBridgeIPv4">> ELSE <<>>
      q1 == QueueStep(q0, c.EnableIPv6, "setupBridgeIPv6")
      q2 == QueueStep(q1, TRUE, "setupVerifyAndReconcile")
      q3 == QueueStep(q2, c.FixedCIDR # NoNet, "setupFixedCIDRv4")
      q4 == QueueStep(q3, c.FixedCIDRv6 # NoNet6, "setupFixedCIDRv6")
      q5 == QueueStep(q4, c.EnableIPTables, "setupIPTables")
      q6 == QueueStep(q5, c.EnableIPForwarding, "setupIPForwarding")
      q7 == QueueStep(q6, c.DefaultGatewayIPv4 # -1, "setupGatewayIPv4")
      q8 == QueueStep(q7, c.DefaultGatewayIPv6 # -1, "setupGatewayIPv6")
  IN Append(q8, "setupDeviceUp")
\* Lines 226-273: the steps CreateNetwork queues for configuration c, given
\* whether the bridge device already exists: the two steps of a new device,
\* the steps of the conditional list in its order, setupDeviceUp.
BuildQueue(c, bridgeAlreadyExists) ==
  LET q0 == IF ~bridgeAlreadyExists THEN <<"setupDevice", "setupBridgeIPv4">> ELSE <<>>
      q1 == QueueStep(q0, c.EnableIPv6, "setupBridgeIPv6")
      q2 == QueueStep(q1, bridgeAlreadyExists, "setupVerifyAndReconcile")
      q3 == QueueStep(q2, c.FixedCIDR # NoNet, "setupFixedCIDRv4")
      q4 == QueueStep(q3, c.FixedCIDRv6 # NoNet6, "setupFixedCIDRv6")
      q5 == QueueStep(q4, c.EnableIPTables, "setupIPTables")
      q6 == QueueStep(q5, c.EnableIPForwarding, "setupIPForwarding")
      q7 == QueueStep(q6, c.DefaultGatewayIPv4 # -1, "setupGatewayIPv4")
      q8 == QueueStep(q7, c.DefaultGatewayIPv6 # -1, "setupGatewayIPv6")
  IN Append(q8, "setupDeviceUp")

\* The steps among the first k of queue q.
Ran(q, k) == {q[i] : i \in 1..k}

\* The bridge interface record after the steps in done ran on it.
IfaceAfter(b, c, done) ==
  [b EXCEPT
     !.link = @ \/ "setupDevice" \in done,
     !.ipv4 = @ \/ "setupBridgeIPv4" \in done \/ "setupVerifyAndReconcile" \in done,
     !.ipv6 = @ \/ "setupBridgeIPv6" \in done,
     !.gatewayIPv4 = IF "setupGatewayIPv4" \in done THEN c.DefaultGatewayIPv4
                     ELSE IF "setupBridgeIPv4" \in done \/ "setupVerifyAndReconcile" \in done
                          THEN c.AddressIPv4.ip ELSE @,
     !.gatewayIPv6 = IF "setupGatewayIPv6" \in done THEN c.DefaultGatewayIPv6 ELSE @]

\* The kernel's bridge device after the steps in done ran.
KBridgeAfter(k, c, done) ==
  [k EXCEPT
     !.exists = @ \/ "setupDevice" \in done,
     !.addr4 = @ \/ "setupBridgeIPv4" \in done \/ "setupVerifyAndReconcile" \in done,
     !.addr6 = @ \/ "setupBridgeIPv6" \in done,
     !.up = @ \/ "setupDeviceUp" \in done]

\* CreateNetwork without the check of lines 199-202: a placeholder is installed
\* over a registered network.
CN_Check_NoExistsCheck(t) ==
  /\ Call(t)
  /\ FreeNetH # {}
  /\ \E id \in CreateNids :
       LET me == [th[t] EXCEPT !.op = "CreateNetwork", !.nid = id] IN
       IF config = NoConfig
       THEN /\ Step(t, [me EXCEPT !.pc = "done", !.ret = "ErrInvalidNetworkConfig"])
            /\ UNCHANGED <<network, nets>>
       ELSE /\ network' = NewH(FreeNetH)
            /\ nets' = [nets EXCEPT ![NewH(FreeNetH)] = [BlankNet EXCEPT !.id = id]]
            /\ Step(t, [me EXCEPT !.pc = "cn_iface", !.cfg = config])
  /\ UNCHANGED <<config, eps, pool4, fixed4, pool6, ports, links, kbridge>>
  /\ UNCHANGED <<rules, scope>>

\* CreateNetwork without the check of lines 191-194: a placeholder is installed
\* on a driver that has no configuration.
CN_Check_NoConfigCheck(t) ==
  /\ Call(t)
  /\ FreeNetH # {}
  /\ \E id \in CreateNids :
       LET me == [th[t] EXCEPT !.op = "CreateNetwork", !.nid = id] IN
       IF network # 0
       THEN /\ Step(t, [me EXCEPT !.pc = "done", !.ret = "ErrNetworkExists"])
            /\ UNCHANGED <<network, nets>>
       ELSE /\ network' = NewH(FreeNetH)
            /\ nets' = [nets EXCEPT ![NewH(FreeNetH)] = [BlankNet EXCEPT !.id = id]]
            /\ Step(t, [me EXCEPT !.pc = "cn_iface", !.cfg = config])
  /\ UNCHANGED <<config, eps, pool4, fixed4, pool6, ports, links, kbridge>>
  /\ UNCHANGED <<rules, scope>>

\* Lines 191-206: the checks and the placeholder, under the driver lock.
CN_Check(t) ==
  /\ Call(t)
  /\ FreeNetH # {}
  /\ \E id \in CreateNids :
       LET me == [th[t] EXCEPT !.op = "CreateNetwork", !.nid = id] IN
       IF config = NoConfig
       THEN /\ Step(t, [me EXCEPT !.pc = "done", !.ret = "ErrInvalidNetworkConfig"])
            /\ UNCHANGED <<network, nets>>
       ELSE IF network # 0
       THEN /\ Step(t, [me EXCEPT !.pc = "done", !.ret = "ErrNetworkExists"])
            /\ UNCHANGED <<network, nets>>
       ELSE /\ network' = NewH(FreeNetH)
            /\ nets' = [nets EXCEPT ![NewH(FreeNetH)] = [BlankNet EXCEPT !.id = id]]
            /\ Step(t, [me EXCEPT !.pc = "cn_iface", !.cfg = config])
  /\ UNCHANGED <<config, eps, pool4, fixed4, pool6, ports, links, kbridge>>
  /\ UNCHANGED <<rules, scope>>

\* Lines 218-273: newInterface looks the bridge device up, the interface is
\* stored in d.network (read without the lock), the steps are queued.
CN_Iface(t) ==
  /\ At(t, "cn_iface")
  /\ IF network = 0
     THEN /\ Goto(t, "panic")
          /\ UNCHANGED nets
     ELSE /\ nets' = [nets EXCEPT ![network].bridge =
                        [NoBridge EXCEPT !.set = TRUE, !.link = kbridge.exists]]
          /\ Step(t, [th[t] EXCEPT !.pc = "cn_apply", !.n = network,
                        !.exists = kbridge.exists,
                        !.todo = BuildQueue(th[t].cfg, kbridge.exists)])
  /\ UNCHANGED <<config, network, eps, pool4, fixed4, pool6, ports, links, kbridge, pre, calls>>
  /\ UNCHANGED <<rules, scope>>

\* Line 274: bridgeSetup.apply runs the queue in order and stops at the first
\* step that fails; k steps succeed.
CN_Apply(t) ==
  /\ At(t, "cn_apply")
  /\ \E k \in 0..Len(th[t].todo) :
       LET q == th[t].todo
           done == Ran(q, k)
       IN /\ nets' = [nets EXCEPT ![th[t].n].bridge = IfaceAfter(@, th[t].cfg, done)]
          /\ kbridge' = KBridgeAfter(kbridge, th[t].cfg, done)
          /\ fixed4' = IF "setupFixedCIDRv4" \in done THEN th[t].cfg.FixedCIDR ELSE fixed4
          /\ Step(t, [th[t] EXCEPT !.pc = "cn_defer",
                        !.err = IF k = Len(q) THEN Nil ELSE q[k + 1]])
  /\ UNCHANGED <<config, network, eps, pool4, pool6, ports, links, pre, calls>>
  /\ UNCHANGED <<rules, scope>>

\* CreateNetwork whose deferred function does not reset the handler.
CN_Defer_NoReset(t) ==
  /\ At(t, "cn_defer")
  /\ network' = network
  /\ Return(t, th[t].err)
  /\ UNCHANGED <<config, nets, eps, pool4, fixed4, pool6, ports, links, kbridge, pre, calls>>
  /\ UNCHANGED <<rules, scope>>

\* CreateNetwork whose deferred function also removes the bridge device the
\* failed call created.
CN_Defer_Rollback(t) ==
  /\ At(t, "cn_defer")
  /\ network' = IF th[t].err # Nil THEN 0 ELSE network
  /\ kbridge' = IF th[t].err # Nil /\ ~th[t].exists
                THEN [exists |-> FALSE, addr4 |-> FALSE, addr6 |-> FALSE, up |-> FALSE]
                ELSE kbridge
  /\ Return(t, th[t].err)
  /\ UNCHANGED <<config, nets, eps, pool4, fixed4, pool6, ports, links, pre, calls>>
  /\ UNCHANGED <<rules, scope>>

\* Lines 209-215: on failure the driver's network handler is reset to nil.
CN_Defer(t) ==
  /\ At(t, "cn_defer")
  /\ network' = IF th[t].err # Nil THEN 0 ELSE network
  /\ Return(t, th[t].err)
  /\ UNCHANGED <<config, nets, eps, pool4, fixed4, pool6, ports, links, kbridge, pre, calls>>
  /\ UNCHANGED <<rules, scope>>

(* ---------------------------- DeleteNetwork ---------------------------- *)
\* DeleteNetwork that compares its argument with the id of the registered
\* network, as CreateEndpoint does.
DN_Detach_CheckId(t) ==
  /\ Call(t)
  /\ \E id \in ArgNids :
       IF network # 0 /\ nets[network].id # id
       THEN /\ Step(t, [th[t] EXCEPT !.pc = "done", !.op = "DeleteNetwork", !.nid = id,
                          !.ret = "InvalidNetworkIDError"])
            /\ UNCHANGED network
       ELSE /\ Step(t, [th[t] EXCEPT !.pc = "dn_delete", !.op = "DeleteNetwork", !.nid = id,
                          !.n = network])
            /\ network' = 0
  /\ UNCHANGED <<config, nets, eps, pool4, fixed4, pool6, ports, links, kbridge>>
  /\ UNCHANGED <<rules, scope>>

\* Lines 285-288: the network handler is taken out of the driver.
DN_Detach(t) ==
  /\ Call(t)
  /\ \E id \in ArgNids :
       Step(t, [th[t] EXCEPT !.pc = "dn_delete", !.op = "DeleteNetwork", !.nid = id,
                  !.n = network])
  /\ network' = 0
  /\ UNCHANGED <<config, nets, eps, pool4, fixed4, pool6, ports, links, kbridge>>
  /\ UNCHANGED <<rules, scope>>

\* DeleteNetwork without the sanity check of lines 309-312 for endpoints.
DN_Delete_NoEndpointCheck(t) ==
  /\ At(t, "dn_delete")
  /\ IF th[t].n = 0
     THEN Step(t, [th[t] EXCEPT !.pc = "dn_defer", !.err = "ErrNoNetwork"])
     ELSE Goto(t, "dn_linkdel")
  /\ UNCHANGED <<Shared, pre, calls>>
  /\ UNCHANGED <<rules, scope>>

\* Lines 303-312: the sanity checks; the endpoint table is read without the
\* network lock.
DN_Delete(t) ==
  /\ At(t, "dn_delete")
  /\ LET n == th[t].n IN
     IF n = 0
     THEN Step(t, [th[t] EXCEPT !.pc = "dn_defer", !.err = "ErrNoNetwork"])
     ELSE IF \E e \in RealEids : nets[n].endpoints[e] # 0
     THEN Step(t, [th[t] EXCEPT !.pc = "dn_defer", !.err = "ActiveEndpointsError"])
     ELSE Goto(t, "dn_linkdel")
  /\ UNCHANGED <<Shared, pre, calls>>
  /\ UNCHANGED <<rules, scope>>

\* Line 315: netlink.LinkDel of the bridge link.
DN_LinkDel(t) ==
  /\ At(t, "dn_linkdel")
  /\ LET n == th[t].n IN
     IF ~nets[n].bridge.set \/ ~nets[n].bridge.link
     THEN /\ Goto(t, "panic")
          /\ UNCHANGED kbridge
     ELSE \/ /\ kbridge.exists
             /\ kbridge' = [exists |-> FALSE, addr4 |-> FALSE, addr6 |-> FALSE, up |-> FALSE]
             /\ Step(t, [th[t] EXCEPT !.pc = "dn_defer", !.err = Nil])
          \/ /\ UNCHANGED kbridge
             /\ Step(t, [th[t] EXCEPT !.pc = "dn_defer", !.err = "netlink"])
  /\ UNCHANGED <<config, network, nets, eps, pool4, fixed4, pool6, ports, links, pre, calls>>
  /\ UNCHANGED <<rules, scope>>

\* DN_Defer that sets the handler back whatever is registered.
DN_Defer_Overwrite(t) ==
  /\ At(t, "dn_defer")
  /\ network' = IF th[t].err # Nil THEN th[t].n ELSE network
  /\ Return(t, th[t].err)
  /\ UNCHANGED <<config, nets, eps, pool4, fixed4, pool6, ports, links, kbridge, pre, calls>>
  /\ UNCHANGED <<rules, scope>>

\* Lines 292-300: on failure the handler is set back, unless another caller
\* installed one meanwhile.
DN_Defer(t) ==
  /\ At(t, "dn_defer")
  /\ network' = IF th[t].err # Nil /\ network = 0 THEN th[t].n ELSE network
  /\ Return(t, th[t].err)
  /\ UNCHANGED <<config, nets, eps, pool4, fixed4, pool6, ports, links, kbridge, pre, calls>>
  /\ UNCHANGED <<rules, scope>>

(* ------------------- IP allocator, port mapper, kernel ----------------- *)
MinOf(S) == CHOOSE x \in S : \A y \in S : x <= y
\* The subnet setupBridgeIPv4 picks when none is configured: the first of its
\* candidates.
CandidateNet4 == [ip |-> 5, len |-> 1]
\* The bridge's IPv4 subnet (bridgeInterface.bridgeIPv4): the configured one if
\* present.
BridgeNet4(c) == IF c.AddressIPv4 # NoNet THEN c.AddressIPv4 ELSE CandidateNet4
\* ipallocator: the addresses RequestIP may hand out for the bridge subnet:
\* the registered sub-range if any, without the network and broadcast
\* addresses and the bridge's own (gateway) address.
Allocatable4(c, reg) ==
  (IF reg # NoNet THEN NetAddrs(reg) ELSE NetAddrs(BridgeNet4(c)))
    \ {NetBase(BridgeNet4(c)), NetLast(BridgeNet4(c)), BridgeNet4(c).ip}
\* ipallocator.RequestIP(subnet, nil): the lowest free address, -1 when exhausted.
RequestIP4(c, reg, used) ==
  IF Allocatable4(c, reg) \ used = {} THEN -1 ELSE MinOf(Allocatable4(c, reg) \ used)
\* ipallocator.RequestIP(subnet, hint): the hint when it is free (0: no hint),
\* else the lowest free address, -1 when exhausted.
RequestIP6(net, hint, used) ==
  IF hint # 0 /\ hint \in net.hosts \ used THEN hint
  ELSE IF net.hosts \ used = {} THEN -1
  ELSE MinOf(net.hosts \ used)
\* Lines 453-456: the subnet the IPv6 address is requested from, and its pool.
Net6(c) == IF c.FixedCIDRv6 # NoNet6 THEN c.FixedCIDRv6 ELSE BridgeNet6
Key6(c) == IF c.FixedCIDRv6 # NoNet6 THEN "fixed6" ELSE "bridge6"
\* HintAddr without the copy of the MAC: no address is preferred.
HintAddr_None(net, mac) == 0
\* Lines 458-465: the preferred address, the prefix with the MAC in its low bytes.
HintAddr(net, mac) ==
  IF net.ones <= HintMaxOnes THEN NumHosts6 - ((mac - 1) % NumHosts6) ELSE 0
\* The interface names present on the host.
IfNames(ls) == {l.host : l \in ls} \cup {l.sbox : l \in ls}
\* The names callers have generated and not yet created in the kernel.
Pending(thr) ==
  {thr[t].name1 : t \in {u \in DOMAIN thr : thr[u].pc \in {"ce_name2", "ce_linkadd"}}}
    \cup {thr[t].name2 : t \in {u \in DOMAIN thr : thr[u].pc = "ce_linkadd"}}
\* generateIfaceName: a random name not present on the host, ErrIfaceName
\* after the attempts collided or failed to generate, or the lookup's own
\* error.  Names carry no meaning, so of the free names the draw is the least
\* one nobody has drawn yet, or one a caller has drawn and not created yet:
\* every other draw is one of these up to renaming.
GenIfaceName(ls, thr) ==
  LET free == Names \ IfNames(ls)
      fresh == free \ Pending(thr)
  IN {[name |-> x, err |-> Nil] :
        x \in (free \cap Pending(thr)) \cup (IF fresh = {} THEN {} ELSE {MinOf(fresh)})}
       \cup {[name |-> 0, err |-> "ErrIfaceName"], [name |-> 0, err |-> "lookup"]}
\* netlink.LinkDel of the link with this name created for this endpoint cell:
\* deleting one end of a veth pair deletes the pair.
LinkDel(ls, name, cell) == {l \in ls : ~(l.cell = cell /\ (l.host = name \/ l.sbox = name))}
\* electMacAddress: the configured MAC if any, else a random one.
ElectMac(o) == IF o.kind = "ok" /\ o.mac # 0 THEN {o.mac} ELSE Macs
\* parseEndpointOptions.
ParseEndpointOptions(o) ==
  IF o.kind = "nil" THEN NoEpConfig ELSE [set |-> TRUE, pb |-> o.pb]
\* allocatePorts: the realized host port for the requested binding (0: none
\* requested), -1 when the port mapper cannot allocate it.
AllocatePorts(epc, used) ==
  IF ~epc.set \/ epc.pb = -1 THEN {0}
  ELSE IF epc.pb = 0 THEN (IF HostPorts \ used = {} THEN {-1} ELSE HostPorts \ used)
  ELSE IF epc.pb \in used THEN {-1} ELSE {epc.pb}

(* ---------------------------- CreateEndpoint --------------------------- *)
\* A return with an error once the placeholder is in the table: err is the
\* function's error variable, which the deferred cleanups inspect.
CEFail(me, e) ==
  [me EXCEPT !.err = e, !.ret = e, !.sinfo = NoInfo,
             !.pc = IF me.host \/ me.sbox THEN "ce_defer_links" ELSE "ce_defer_ep"]

\* Lines 327-333: the network handler is read under the driver lock.
CE_GetNetwork(t) ==
  /\ Call(t)
  /\ \E nid \in ArgNids, eid \in ArgEids, o \in ArgOpts :
       LET me == [th[t] EXCEPT !.op = "CreateEndpoint", !.nid = nid, !.eid = eid, !.opts = o,
                               !.n = network, !.cfg = config]
       IN IF network = 0
          THEN Step(t, [me EXCEPT !.pc = "done", !.ret = "ErrNoNetwork"])
          ELSE Step(t, [me EXCEPT !.pc = "ce_nid"])
  /\ UNCHANGED Shared
  /\ UNCHANGED <<rules, scope>>

\* Lines 336-341: the network id is checked under the network lock.
CE_CheckNid(t) ==
  /\ At(t, "ce_nid")
  /\ IF nets[th[t].n].id # th[t].nid
     THEN Return(t, "InvalidNetworkIDError")
     ELSE Goto(t, "ce_lookup")
  /\ UNCHANGED <<Shared, pre, calls>>
  /\ UNCHANGED <<rules, scope>>

\* CE_Lookup without the check of lines 348-350: an endpoint id of the table
\* is accepted.
CE_Lookup_NoExistsCheck(t) ==
  /\ At(t, "ce_lookup")
  /\ IF th[t].eid = "" THEN Return(t, "InvalidEndpointIDError")
     ELSE IF th[t].opts.kind = "bad" THEN Return(t, "ErrInvalidEndpointConfig")
     ELSE Goto(t, "ce_insert")
  /\ UNCHANGED <<Shared, pre, calls>>
  /\ UNCHANGED <<rules, scope>>

\* Lines 344-358: getEndpoint and parseEndpointOptions.
CE_Lookup(t) ==
  /\ At(t, "ce_lookup")
  /\ IF th[t].eid = "" THEN Return(t, "InvalidEndpointIDError")
     ELSE IF nets[th[t].n].endpoints[th[t].eid] # 0 THEN Return(t, "ErrEndpointExists")
     ELSE IF th[t].opts.kind = "bad" THEN Return(t, "ErrInvalidEndpointConfig")
     ELSE Goto(t, "ce_insert")
  /\ UNCHANGED <<Shared, pre, calls>>
  /\ UNCHANGED <<rules, scope>>

\* Lines 361-364: the endpoint is created and added to the table.
CE_Insert(t) ==
  /\ At(t, "ce_insert")
  /\ FreeEpH # {}
  /\ LET h == NewH(FreeEpH) IN
       /\ eps' = [eps EXCEPT ![h] = [BlankEp EXCEPT !.id = th[t].eid,
                                       !.config = ParseEndpointOptions(th[t].opts)]]
       /\ nets' = [nets EXCEPT ![th[t].n].endpoints[th[t].eid] = h]
       /\ Step(t, [th[t] EXCEPT !.pc = "ce_name1", !.ep = h, !.inserted = TRUE])
  /\ UNCHANGED <<config, network, pool4, fixed4, pool6, ports, links, kbridge, pre, calls>>
  /\ UNCHANGED <<rules, scope>>

\* Line 376: the name of the host side interface.
CE_Name1(t) ==
  /\ At(t, "ce_name1")
  /\ \E r \in GenIfaceName(links, th) :
       IF r.err # Nil THEN Step(t, CEFail(th[t], r.err))
       ELSE Step(t, [th[t] EXCEPT !.pc = "ce_name2", !.name1 = r.name])
  /\ UNCHANGED <<Shared, pre, calls>>
  /\ UNCHANGED <<rules, scope>>

\* Line 382: the name of the sandbox side interface.
CE_Name2(t) ==
  /\ At(t, "ce_name2")
  /\ \E r \in GenIfaceName(links, th) :
       IF r.err # Nil THEN Step(t, CEFail(th[t], r.err))
       ELSE Step(t, [th[t] EXCEPT !.pc = "ce_linkadd", !.name2 = r.name])
  /\ UNCHANGED <<Shared, pre, calls>>
  /\ UNCHANGED <<rules, scope>>

\* Lines 388-393: netlink.LinkAdd of the veth pair.
CE_LinkAdd(t) ==
  /\ At(t, "ce_linkadd")
  /\ \/ /\ th[t].name1 # th[t].name2
        /\ {th[t].name1, th[t].name2} \cap IfNames(links) = {}
        /\ links' = links \cup {[host |-> th[t].name1, sbox |-> th[t].name2,
                                 master |-> FALSE, cell |-> th[t].ep, eid |-> th[t].eid]}
        /\ Step(t, [th[t] EXCEPT !.pc = "ce_host", !.added = TRUE])
     \/ /\ UNCHANGED links
        /\ Step(t, CEFail(th[t], "netlink"))
  /\ UNCHANGED <<config, network, nets, eps, pool4, fixed4, pool6, ports, kbridge, pre, calls>>
  /\ UNCHANGED <<rules, scope>>

\* Lines 396-404: the host side link handle; its deletion is deferred.
CE_Host(t) ==
  /\ At(t, "ce_host")
  /\ \/ /\ th[t].name1 \in IfNames(links)
        /\ Step(t, [th[t] EXCEPT !.pc = "ce_sbox", !.host = TRUE])
     \/ Step(t, CEFail(th[t], "netlink"))
  /\ UNCHANGED <<Shared, pre, calls>>
  /\ UNCHANGED <<rules, scope>>

\* Lines 407-415: the sandbox side link handle; its deletion is deferred.
CE_Sbox(t) ==
  /\ At(t, "ce_sbox")
  /\ \/ /\ th[t].name2 \in IfNames(links)
        /\ Step(t, [th[t] EXCEPT !.pc = "ce_attrs", !.sbox = TRUE])
     \/ Step(t, CEFail(th[t], "netlink"))
  /\ UNCHANGED <<Shared, pre, calls>>
  /\ UNCHANGED <<rules, scope>>

\* Lines 418-434: the MAC is elected and set, and the MTU if configured.
CE_Attrs(t) ==
  /\ At(t, "ce_attrs")
  /\ \E m \in ElectMac(th[t].opts) :
       \/ Step(t, [th[t] EXCEPT !.pc = "ce_master", !.mac = m])
       \/ Step(t, CEFail(th[t], "netlink"))
  /\ UNCHANGED <<Shared, pre, calls>>
  /\ UNCHANGED <<rules, scope>>

\* Lines 437-440: the host side is attached to the bridge.
CE_Master(t) ==
  /\ At(t, "ce_master")
  /\ \/ /\ kbridge.exists
        /\ links' = {IF l.cell = th[t].ep /\ l.host = th[t].name1
                     THEN [l EXCEPT !.master = TRUE] ELSE l : l \in links}
        /\ Goto(t, "ce_ip4")
     \/ /\ UNCHANGED links
        /\ Step(t, CEFail(th[t], "netlink"))
  /\ UNCHANGED <<config, network, nets, eps, pool4, fixed4, pool6, ports, kbridge, pre, calls>>
  /\ UNCHANGED <<rules, scope>>

\* Lines 443-447: the IPv4 address is requested from the allocator.
CE_RequestIPv4(t) ==
  /\ At(t, "ce_ip4")
  /\ LET b == nets[th[t].n].bridge
         ip == RequestIP4(th[t].cfg, fixed4, pool4)
     IN IF ~b.set \/ ~b.ipv4
        THEN /\ Goto(t, "panic")
             /\ UNCHANGED pool4
        ELSE IF ip = -1
        THEN /\ Step(t, CEFail(th[t], "ErrNoAvailableIPs"))
             /\ UNCHANGED pool4
        ELSE /\ pool4' = pool4 \cup {ip}
             /\ Step(t, [th[t] EXCEPT !.ip4 = ip,
                           !.pc = IF th[t].cfg.EnableIPv6 THEN "ce_ip6" ELSE "ce_intf"])
  /\ UNCHANGED <<config, network, nets, eps, fixed4, pool6, ports, links, kbridge, pre, calls>>
  /\ UNCHANGED <<rules, scope>>

\* Lines 450-473: the IPv6 address is requested, the MAC based address
\* preferred.  The request's error is declared in the block (ip6, err := ...):
\* it is returned, and the function's err, which the deferred cleanups read,
\* keeps the nil of the IPv4 request.
CE_RequestIPv6(t) ==
  /\ At(t, "ce_ip6")
  /\ LET b == nets[th[t].n].bridge
         net == Net6(th[t].cfg)
         key == Key6(th[t].cfg)
         hint == HintAddr(net, th[t].mac)
         ip == RequestIP6(net, hint, pool6[key])
     IN IF th[t].cfg.FixedCIDRv6 = NoNet6 /\ (~b.set \/ ~b.ipv6)
        THEN /\ Goto(t, "panic")
             /\ UNCHANGED pool6
        ELSE IF ip = -1
        THEN /\ Step(t, [th[t] EXCEPT !.ret = "ErrNoAvailableIPs", !.hint = hint,
                           !.pc = IF th[t].err # Nil THEN "ce_defer_links" ELSE "done"])
             /\ UNCHANGED pool6
        ELSE /\ pool6' = [pool6 EXCEPT ![key] = @ \cup {ip}]
             /\ Step(t, [th[t] EXCEPT !.ip6 = ip, !.hint = hint, !.pc = "ce_intf"])
  /\ UNCHANGED <<config, network, nets, eps, pool4, fixed4, ports, links, kbridge, pre, calls>>
  /\ UNCHANGED <<rules, scope>>

\* CE_Intf that names the host side of the veth pair as the source.
CE_Intf_HostSide(t) ==
  /\ At(t, "ce_intf")
  /\ eps' = [eps EXCEPT ![th[t].ep].intf =
               [set |-> TRUE, src |-> th[t].name1, dst |-> "eth0", ip4 |-> th[t].ip4,
                mask4 |-> BridgeNet4(th[t].cfg).len,
                ip6 |-> IF th[t].cfg.EnableIPv6 THEN th[t].ip6 ELSE -1,
                key6 |-> IF th[t].cfg.EnableIPv6 THEN Key6(th[t].cfg) ELSE ""]]
  /\ Step(t, [th[t] EXCEPT !.pc = "ce_ports",
                !.sinfo = [set |-> TRUE, interfaces |-> <<th[t].ep>>,
                           gateway |-> nets[th[t].n].bridge.gatewayIPv4,
                           gatewayIPv6 |-> IF th[t].cfg.EnableIPv6
                                           THEN nets[th[t].n].bridge.gatewayIPv6 ELSE -1]])
  /\ UNCHANGED <<config, network, nets, pool4, fixed4, pool6, ports, links, kbridge, pre, calls>>
  /\ UNCHANGED <<rules, scope>>

\* Lines 476-492: the sandbox interface is built and stored in the endpoint,
\* the info to return lists the same interface object and the bridge's gateways.
CE_Intf(t) ==
  /\ At(t, "ce_intf")
  /\ eps' = [eps EXCEPT ![th[t].ep].intf =
               [set |-> TRUE, src |-> th[t].name2, dst |-> "eth0", ip4 |-> th[t].ip4,
                mask4 |-> BridgeNet4(th[t].cfg).len,
                ip6 |-> IF th[t].cfg.EnableIPv6 THEN th[t].ip6 ELSE -1,
                key6 |-> IF th[t].cfg.EnableIPv6 THEN Key6(th[t].cfg) ELSE ""]]
  /\ Step(t, [th[t] EXCEPT !.pc = "ce_ports",
                !.sinfo = [set |-> TRUE, interfaces |-> <<th[t].ep>>,
                           gateway |-> nets[th[t].n].bridge.gatewayIPv4,
                           gatewayIPv6 |-> IF th[t].cfg.EnableIPv6
                                           THEN nets[th[t].n].bridge.gatewayIPv6 ELSE -1]])
  /\ UNCHANGED <<config, network, nets, pool4, fixed4, pool6, ports, links, kbridge, pre, calls>>
  /\ UNCHANGED <<rules, scope>>

\* Lines 495-500: the port mappings are programmed and stored.
CE_Ports(t) ==
  /\ At(t, "ce_ports")
  /\ \E p \in AllocatePorts(eps[th[t].ep].config, ports) :
       IF p = -1
       THEN /\ Step(t, CEFail(th[t], "ErrAllocatePort"))
            /\ UNCHANGED <<ports, eps>>
       ELSE /\ ports' = ports \cup ({p} \ {0})
            /\ eps' = [eps EXCEPT ![th[t].ep].portMapping = p]
            /\ Return(t, Nil)
  /\ UNCHANGED <<config, network, nets, pool4, fixed4, pool6, links, kbridge, pre, calls>>
  /\ UNCHANGED <<rules, scope>>

\* Lines 400-404 and 411-415, run at return in reverse order: on failure the
\* sandbox side and the host side links are deleted.
CE_DeferLinks(t) ==
  /\ At(t, "ce_defer_links")
  /\ links' = IF th[t].err = Nil THEN links
              ELSE LET l1 == IF th[t].sbox THEN LinkDel(links, th[t].name2, th[t].ep) ELSE links
                   IN IF th[t].host THEN LinkDel(l1, th[t].name1, th[t].ep) ELSE l1
  /\ Goto(t, "ce_defer_ep")
  /\ UNCHANGED <<config, network, nets, eps, pool4, fixed4, pool6, ports, kbridge, pre, calls>>
  /\ UNCHANGED <<rules, scope>>

\* Lines 367-373, run last at return: on failure the endpoint is removed.
CE_DeferEndpoint(t) ==
  /\ At(t, "ce_defer_ep")
  /\ nets' = IF th[t].err # Nil
             THEN [nets EXCEPT ![th[t].n].endpoints[th[t].eid] = 0]
             ELSE nets
  /\ Goto(t, "done")
  /\ UNCHANGED <<config, network, eps, pool4, fixed4, pool6, ports, links, kbridge, pre, calls>>
  /\ UNCHANGED <<rules, scope>>

(* ---------------------------- DeleteEndpoint --------------------------- *)
\* Lines 507-513: the network handler is read under the driver lock.
DE_GetNetwork(t) ==
  /\ Call(t)
  /\ \E nid \in ArgNids, eid \in ArgEids :
       LET me == [th[t] EXCEPT !.op = "DeleteEndpoint", !.nid = nid, !.eid = eid,
                               !.n = network, !.cfg = config]
       IN IF network = 0
          THEN Step(t, [me EXCEPT !.pc = "done", !.ret = "ErrNoNetwork"])
          ELSE Step(t, [me EXCEPT !.pc = "de_nid"])
  /\ UNCHANGED Shared
  /\ UNCHANGED <<rules, scope>>

\* Lines 516-521: the network id is checked under the network lock.
DE_CheckNid(t) ==
  /\ At(t, "de_nid")
  /\ IF nets[th[t].n].id # th[t].nid
     THEN Return(t, "InvalidNetworkIDError")
     ELSE Goto(t, "de_lookup")
  /\ UNCHANGED <<Shared, pre, calls>>
  /\ UNCHANGED <<rules, scope>>

\* Lines 524-530: getEndpoint.
DE_Lookup(t) ==
  /\ At(t, "de_lookup")
  /\ IF th[t].eid = "" THEN Return(t, "InvalidEndpointIDError")
     ELSE IF nets[th[t].n].endpoints[th[t].eid] = 0 THEN Return(t, "EndpointNotFoundError")
     ELSE Step(t, [th[t] EXCEPT !.pc = "de_remove", !.ep = nets[th[t].n].endpoints[th[t].eid]])
  /\ UNCHANGED <<Shared, pre, calls>>
  /\ UNCHANGED <<rules, scope>>

\* Lines 533-535: the endpoint is removed from the table.
DE_Remove(t) ==
  /\ At(t, "de_remove")
  /\ nets' = [nets EXCEPT ![th[t].n].endpoints[th[t].eid] = 0]
  /\ Step(t, [th[t] EXCEPT !.pc = "de_ports", !.removed = TRUE])
  /\ UNCHANGED <<config, network, eps, pool4, fixed4, pool6, ports, links, kbridge, pre, calls>>
  /\ UNCHANGED <<rules, scope>>

\* Line 550: releasePorts; a failure to unmap does not stop the delete.
DE_ReleasePorts(t) ==
  /\ At(t, "de_ports")
  /\ ports' = ports \ {eps[th[t].ep].portMapping}
  /\ Goto(t, "de_ip4")
  /\ UNCHANGED <<config, network, nets, eps, pool4, fixed4, pool6, links, kbridge, pre, calls>>
  /\ UNCHANGED <<rules, scope>>

\* A return with an error: err is the function's error variable.
DEFail(me, e) == [me EXCEPT !.err = e, !.ret = e, !.pc = "de_defer"]

\* Lines 553-556: the IPv4 address is released.
DE_ReleaseIPv4(t) ==
  /\ At(t, "de_ip4")
  /\ IF ~eps[th[t].ep].intf.set
     THEN /\ Goto(t, "panic")
          /\ UNCHANGED pool4
     ELSE \/ /\ pool4' = pool4 \ {eps[th[t].ep].intf.ip4}
             /\ Goto(t, IF th[t].cfg.EnableIPv6 THEN "de_ip6" ELSE "de_link")
          \/ /\ UNCHANGED pool4
             /\ Step(t, DEFail(th[t], "ipallocator"))
  /\ UNCHANGED <<config, network, nets, eps, fixed4, pool6, ports, links, kbridge, pre, calls>>
  /\ UNCHANGED <<rules, scope>>

\* Lines 559-564: the IPv6 address is released to the pool of the bridge's
\* IPv6 subnet.  The release's error is declared in the block (err := ...): it
\* is returned, and the function's err stays nil.
DE_ReleaseIPv6(t) ==
  /\ At(t, "de_ip6")
  /\ IF eps[th[t].ep].intf.ip6 = -1
     THEN /\ Goto(t, "panic")
          /\ UNCHANGED pool6
     ELSE \/ /\ pool6' = [pool6 EXCEPT !["bridge6"] = @ \ {eps[th[t].ep].intf.ip6}]
             /\ Goto(t, "de_link")
          \/ /\ UNCHANGED pool6
             /\ Step(t, [th[t] EXCEPT !.ret = "ipallocator", !.pc = "de_defer"])
  /\ UNCHANGED <<config, network, nets, eps, pool4, fixed4, ports, links, kbridge, pre, calls>>
  /\ UNCHANGED <<rules, scope>>

\* Lines 568-573: the link is looked up by the interface's source name and
\* deleted if found; the lookup's error is assigned to the function's err
\* and nil is returned.
DE_Link(t) ==
  /\ At(t, "de_link")
  /\ LET name == eps[th[t].ep].intf.src IN
       \/ /\ name \in IfNames(links)
          /\ links' = {l \in links : l.host # name /\ l.sbox # name}
          /\ Step(t, [th[t] EXCEPT !.err = Nil, !.ret = Nil, !.pc = "de_defer"])
       \/ /\ UNCHANGED links
          /\ Step(t, [th[t] EXCEPT !.err = "netlink", !.ret = Nil, !.pc = "de_defer"])
  /\ UNCHANGED <<config, network, nets, eps, pool4, fixed4, pool6, ports, kbridge, pre, calls>>
  /\ UNCHANGED <<rules, scope>>

\* Lines 539-547, run at return: on failure the endpoint is set back in the
\* table, unless the id has been taken over meanwhile.
DE_Defer(t) ==
  /\ At(t, "de_defer")
  /\ nets' = IF th[t].err # Nil /\ nets[th[t].n].endpoints[th[t].eid] = 0
             THEN [nets EXCEPT ![th[t].n].endpoints[th[t].eid] = th[t].ep]
             ELSE nets
  /\ Goto(t, "done")
  /\ UNCHANGED <<config, network, eps, pool4, fixed4, pool6, ports, links, kbridge, pre, calls>>
  /\ UNCHANGED <<rules, scope>>

(* ---------------------------- Join and Leave --------------------------- *)
\* A link: the ACCEPT rules from the parent's address to the child's for the
\* child's port bindings.
NewLink(parent, child, pb) == [src |-> parent, dst |-> child, pb |-> pb]
\* link.Enable appends the rules of the link.
EnableLink(rs, l) == rs (+) SetToBag({l})
\* link.Disable deletes the rules of the link; a failure is logged only.
DisableLink(rs, l) == IF BagIn(l, rs) THEN rs (-) SetToBag({l}) ELSE rs
RECURSIVE DisableAll(_, _)
DisableAll(rs, ls) == IF ls = <<>> THEN rs ELSE DisableAll(DisableLink(rs, Head(ls)), Tail(ls))
\* endpoint.config != nil && endpoint.config.PortBindings != nil
HasPortBindings(e) == e.config.set /\ e.config.pb # -1

\* JoinLeave that works on the links whatever EnableICC is.
JoinLeave_IgnoreICC(t, op) ==
  /\ Call(t)
  /\ \E nid \in ArgNids, eid \in ArgEids, co \in ArgCopts :
       LET me == [th[t] EXCEPT !.op = op, !.nid = nid, !.eid = eid, !.copts = co,
                               !.cfg = config, !.enable = (op = "Join")] IN
       IF config = NoConfig THEN Step(t, [me EXCEPT !.pc = "panic"])
       ELSE Step(t, [me EXCEPT !.pc = "lk_start"])
  /\ UNCHANGED <<Shared, rules, scope>>

\* Lines 577-583 and 586-592: d.config is dereferenced; the link is worked on
\* only with ICC disabled.
JoinLeave(t, op) ==
  /\ Call(t)
  /\ \E nid \in ArgNids, eid \in ArgEids, co \in ArgCopts :
       LET me == [th[t] EXCEPT !.op = op, !.nid = nid, !.eid = eid, !.copts = co,
                               !.cfg = config, !.enable = (op = "Join")] IN
       IF config = NoConfig THEN Step(t, [me EXCEPT !.pc = "panic"])
       ELSE IF config.EnableICC THEN Step(t, [me EXCEPT !.pc = "done", !.ret = Nil])
       ELSE Step(t, [me EXCEPT !.pc = "lk_start"])
  /\ UNCHANGED <<Shared, rules, scope>>
Join(t) == JoinLeave(t, "Join")
Leave(t) == JoinLeave(t, "Leave")

\* Lines 595-614: getNetwork returns d.network, getEndpoint locks it and looks
\* the endpoint up, the container options are parsed.
LK_Start(t) ==
  /\ At(t, "lk_start")
  /\ IF network = 0 THEN Goto(t, "panic")
     ELSE IF th[t].eid = "" THEN Return(t, "InvalidEndpointIDError")
     ELSE IF nets[network].endpoints[th[t].eid] = 0 THEN Return(t, "EndpointNotFoundError")
     ELSE IF th[t].copts.kind = "bad" THEN Return(t, "GenerateFromModelError")
     ELSE IF th[t].copts.kind = "nil" THEN Return(t, Nil)
     ELSE LET h == nets[network].endpoints[th[t].eid] IN
          Step(t, [th[t] EXCEPT !.pc = "lk_parent", !.n = network, !.ep = h,
                     !.todo = IF HasPortBindings(eps[h]) THEN th[t].copts.parents ELSE <<>>])
  /\ UNCHANGED <<Shared, pre, calls, rules, scope>>

\* LinkStep of a Leave that disables nothing.
LinkStep_NoDisable(t, l) ==
  IF th[t].enable
  THEN \/ /\ rules' = EnableLink(rules, l)
          /\ Step(t, [th[t] EXCEPT !.todo = Tail(@), !.undo = Append(@, l)])
       \/ /\ UNCHANGED rules
          /\ Step(t, [th[t] EXCEPT !.err = "iptables", !.pc = "lk_defer"])
  ELSE /\ UNCHANGED rules
       /\ Step(t, [th[t] EXCEPT !.todo = Tail(@)])

\* One link of the call: looked up, its interface and the endpoint's
\* dereferenced, enabled (its Disable deferred) or disabled.
LinkStep(t, l) ==
  IF th[t].enable
  THEN \/ /\ rules' = EnableLink(rules, l)
          /\ Step(t, [th[t] EXCEPT !.todo = Tail(@), !.undo = Append(@, l)])
       \/ /\ UNCHANGED rules
          /\ Step(t, [th[t] EXCEPT !.err = "iptables", !.pc = "lk_defer"])
  ELSE /\ rules' = DisableLink(rules, l)
       /\ Step(t, [th[t] EXCEPT !.todo = Tail(@)])

\* Lines 616-645: the next parent endpoint.
LK_Parent(t) ==
  /\ At(t, "lk_parent")
  /\ IF th[t].todo = <<>>
     THEN /\ Step(t, [th[t] EXCEPT !.pc = "lk_child", !.todo = th[t].copts.children])
          /\ UNCHANGED rules
     ELSE LET p == Head(th[t].todo)
              h == IF p = "" THEN 0 ELSE nets[th[t].n].endpoints[p]
          IN IF h = 0
             THEN /\ Step(t, [th[t] EXCEPT !.err = "InvalidEndpointIDError", !.pc = "lk_defer"])
                  /\ UNCHANGED rules
             ELSE IF ~eps[h].intf.set \/ ~eps[th[t].ep].intf.set
             THEN /\ Goto(t, "panic")
                  /\ UNCHANGED rules
             ELSE LinkStep(t, NewLink(eps[h].intf.ip4, eps[th[t].ep].intf.ip4,
                                      eps[th[t].ep].config.pb))
  /\ UNCHANGED <<Shared, pre, calls, scope>>

\* LK_Child that links a child without port bindings too.
LK_Child_NoSkip(t) ==
  /\ At(t, "lk_child")
  /\ IF th[t].todo = <<>>
     THEN /\ Step(t, [th[t] EXCEPT !.pc = "lk_defer", !.err = Nil])
          /\ UNCHANGED rules
     ELSE LET c == Head(th[t].todo)
              h == IF c = "" THEN 0 ELSE nets[th[t].n].endpoints[c]
          IN IF h = 0
             THEN /\ Step(t, [th[t] EXCEPT !.err = "InvalidEndpointIDError", !.pc = "lk_defer"])
                  /\ UNCHANGED rules
             ELSE IF ~eps[h].intf.set \/ ~eps[th[t].ep].intf.set
             THEN /\ Goto(t, "panic")
                  /\ UNCHANGED rules
             ELSE LinkStep(t, NewLink(eps[th[t].ep].intf.ip4, eps[h].intf.ip4,
                                      eps[h].config.pb))
  /\ UNCHANGED <<Shared, pre, calls, scope>>

\* Lines 647-676: the next child endpoint; one without port bindings is skipped.
LK_Child(t) ==
  /\ At(t, "lk_child")
  /\ IF th[t].todo = <<>>
     THEN /\ Step(t, [th[t] EXCEPT !.pc = "lk_defer", !.err = Nil])
          /\ UNCHANGED rules
     ELSE LET c == Head(th[t].todo)
              h == IF c = "" THEN 0 ELSE nets[th[t].n].endpoints[c]
          IN IF h = 0
             THEN /\ Step(t, [th[t] EXCEPT !.err = "InvalidEndpointIDError", !.pc = "lk_defer"])
                  /\ UNCHANGED rules
             ELSE IF ~HasPortBindings(eps[h])
             THEN /\ Step(t, [th[t] EXCEPT !.todo = Tail(@)])
                  /\ UNCHANGED rules
             ELSE IF ~eps[h].intf.set \/ ~eps[th[t].ep].intf.set
             THEN /\ Goto(t, "panic")
                  /\ UNCHANGED rules
             ELSE LinkStep(t, NewLink(eps[th[t].ep].intf.ip4, eps[h].intf.ip4,
                                      eps[h].config.pb))
  /\ UNCHANGED <<Shared, pre, calls, scope>>

\* LK_Defer without the deferred Disable calls.
LK_Defer_NoDisable(t) ==
  /\ At(t, "lk_defer")
  /\ UNCHANGED rules
  /\ Return(t, th[t].err)
  /\ UNCHANGED <<Shared, pre, calls, scope>>

\* Lines 632-636 and 667-671, run at return: on failure the links this call
\* enabled are disabled, the last one first.
LK_Defer(t) ==
  /\ At(t, "lk_defer")
  /\ rules' = IF th[t].err # Nil THEN DisableAll(rules, th[t].undo) ELSE rules
  /\ Return(t, th[t].err)
  /\ UNCHANGED <<Shared, pre, calls, scope>>

(* ------------------- locks, guarded fields, external calls -------------- *)
\* The operations seen as what they do to the two mutexes, to the fields the
\* mutexes guard and to the outside: an edge <<from, event, to>> is one such
\* event of the code, between two positions of the operation; what decides
\* between the edges leaving a position is data and left open.
LockEvents == {"d.Lock", "n.Lock"}
UnlockEvents == {"d.Unlock", "n.Unlock"}
\* netlink, the IP allocator, the port mapper and the firewall.
ExternalEvents == {"netlink", "ipallocator", "portmapper", "iptables"}
\* Reads and writes of driver.config and driver.network, of a network's
\* endpoint table and of its id.
DriverAccesses == {"rd:config", "wr:config", "rd:network", "wr:network"}
NetworkAccesses == {"rd:endpoints", "wr:endpoints", "rd:id"}
WriteEvents == {"wr:config", "wr:network", "wr:endpoints"}

\* Lines 146-178: Config locks the driver for its whole body.
ConfigFlow ==
  { <<"cfg_lock", "d.Lock", "cfg_check">>,
    <<"cfg_check", "rd:config", "cfg_unlock">>,
    <<"cfg_check", "rd:config", "cfg_store">>,
    <<"cfg_store", "wr:config", "cfg_unlock">>,
    <<"cfg_unlock", "d.Unlock", "done">> }
\* Lines 187-279: CreateNetwork.
CreateNetworkFlow ==
  { <<"cn_lock", "d.Lock", "cn_config">>,
    <<"cn_config", "rd:config", "cn_reject">>,
    <<"cn_config", "rd:config", "cn_exists">>,
    <<"cn_exists", "rd:network", "cn_reject">>,
    <<"cn_exists", "rd:network", "cn_set">>,
    <<"cn_reject", "d.Unlock", "done">>,
    <<"cn_set", "wr:network", "cn_unlock">>,
    <<"cn_unlock", "d.Unlock", "cn_newif">>,
    <<"cn_newif", "netlink", "cn_bridge">>,
    <<"cn_bridge", "rd:network", "cn_setup1">>,
    <<"cn_bridge", "rd:network", "panic">>,
    <<"cn_setup1", "netlink", "cn_setup2">>,
    <<"cn_setup1", "netlink", "cn_reset">>,
    <<"cn_setup2", "ipallocator", "cn_setup3">>,
    <<"cn_setup2", "ipallocator", "cn_reset">>,
    <<"cn_setup3", "iptables", "cn_setup4">>,
    <<"cn_setup3", "iptables", "cn_reset">>,
    <<"cn_setup4", "netlink", "done">>,
    <<"cn_setup4", "netlink", "cn_reset">>,
    <<"cn_reset", "d.Lock", "cn_reset1">>,
    <<"cn_reset1", "wr:network", "cn_reset2">>,
    <<"cn_reset2", "d.Unlock", "done">> }
\* Lines 281-318: DeleteNetwork.
DeleteNetworkFlow ==
  { <<"dn_lock", "d.Lock", "dn_get">>,
    <<"dn_get", "rd:network", "dn_clear">>,
    <<"dn_clear", "wr:network", "dn_unlock">>,
    <<"dn_unlock", "d.Unlock", "dn_len">>,
    <<"dn_unlock", "d.Unlock", "dn_restore">>,
    <<"dn_len", "rd:endpoints", "dn_linkdel">>,
    <<"dn_len", "rd:endpoints", "dn_id">>,
    <<"dn_id", "rd:id", "dn_restore">>,
    <<"dn_linkdel", "netlink", "done">>,
    <<"dn_linkdel", "netlink", "dn_restore">>,
    <<"dn_restore", "d.Lock", "dn_restore1">>,
    <<"dn_restore1", "rd:network", "dn_restore2">>,
    <<"dn_restore1", "rd:network", "dn_restore3">>,
    <<"dn_restore2", "wr:network", "dn_restore3">>,
    <<"dn_restore3", "d.Unlock", "done">> }
\* Lines 326-341: CreateEndpoint and DeleteEndpoint read the handler and the
\* configuration under the driver lock, the id under the network lock.
PrologueFlow(p) ==
  { <<p \o "_lock", "d.Lock", p \o "_net">>,
    <<p \o "_net", "rd:network", p \o "_cfg">>,
    <<p \o "_cfg", "rd:config", p \o "_unlock">>,
    <<p \o "_unlock", "d.Unlock", "done">>,
    <<p \o "_unlock", "d.Unlock", p \o "_nlock">>,
    <<p \o "_nlock", "n.Lock", p \o "_id">>,
    <<p \o "_id", "rd:id", p \o "_badid">>,
    <<p \o "_id", "rd:id", p \o "_nunlock">>,
    <<p \o "_badid", "n.Unlock", "done">>,
    <<p \o "_nunlock", "n.Unlock", p \o "_get">> }
\* Lines 131-144: getEndpoint locks the network for its body.
GetEndpointFlow(from, found, absent) ==
  { <<from, "n.Lock", from \o "_look">>,
    <<from \o "_look", "rd:endpoints", from \o "_unl">>,
    <<from \o "_unl", "n.Unlock", found>>,
    <<from \o "_unl", "n.Unlock", absent>> }
\* Lines 361-364 with the unlock moved behind the generation of the names.
InsertFlow_LateUnlock ==
  { <<"ce_ins", "n.Lock", "ce_ins1">>,
    <<"ce_ins1", "wr:endpoints", "ce_gen1">>,
    <<"ce_ins2", "n.Unlock", "ce_linkadd">> }
\* Lines 361-364: the endpoint is inserted under the network lock.
InsertFlow ==
  { <<"ce_ins", "n.Lock", "ce_ins1">>,
    <<"ce_ins1", "wr:endpoints", "ce_ins2">>,
    <<"ce_ins2", "n.Unlock", "ce_gen1">> }
\* Lines 320-501: CreateEndpoint; the two names are generated at ce_gen1 and
\* ce_gen2.
CreateEndpointFlow ==
  PrologueFlow("ce") \cup GetEndpointFlow("ce_get", "done", "ce_ins") \cup InsertFlow \cup
  { <<"ce_linkadd", "netlink", "ce_addr4">>,
    <<"ce_linkadd", "netlink", "ce_fail">>,
    <<"ce_addr4", "ipallocator", "ce_addr6">>,
    <<"ce_addr4", "ipallocator", "ce_ports">>,
    <<"ce_addr4", "ipallocator", "ce_fail">>,
    <<"ce_addr6", "ipallocator", "ce_ports">>,
    <<"ce_addr6", "ipallocator", "done">>,
    <<"ce_addr6", "ipallocator", "ce_fail">>,
    <<"ce_ports", "portmapper", "done">>,
    <<"ce_ports", "portmapper", "ce_fail">>,
    <<"ce_fail", "netlink", "ce_undo">>,
    <<"ce_undo", "n.Lock", "ce_undo1">>,
    <<"ce_undo1", "wr:endpoints", "ce_undo2">>,
    <<"ce_undo2", "n.Unlock", "done">> }
\* Lines 506-574: DeleteEndpoint.
DeleteEndpointFlow ==
  PrologueFlow("de") \cup GetEndpointFlow("de_get", "de_del", "done") \cup
  { <<"de_del", "n.Lock", "de_del1">>,
    <<"de_del1", "wr:endpoints", "de_del2">>,
    <<"de_del2", "n.Unlock", "de_unmap">>,
    <<"de_unmap", "portmapper", "de_rel4">>,
    <<"de_rel4", "ipallocator", "de_rel6">>,
    <<"de_rel4", "ipallocator", "de_linkdel">>,
    <<"de_rel4", "ipallocator", "de_back">>,
    <<"de_rel6", "ipallocator", "de_linkdel">>,
    <<"de_rel6", "ipallocator", "done">>,
    <<"de_linkdel", "netlink", "done">>,
    <<"de_linkdel", "netlink", "de_back">>,
    <<"de_back", "n.Lock", "de_back1">>,
    <<"de_back1", "rd:endpoints", "de_back2">>,
    <<"de_back1", "rd:endpoints", "de_back3">>,
    <<"de_back2", "wr:endpoints", "de_back3">>,
    <<"de_back3", "n.Unlock", "done">> }
\* Lines 576-678: Join and Leave read d.config, link reads d.network through
\* getNetwork and looks up the endpoint, at most one parent and one child; a
\* link is built with d.config.BridgeName and enabled or disabled.
JoinLeaveFlow ==
  GetEndpointFlow("lk_get", "lk_parent", "done")
  \cup GetEndpointFlow("lk_parent", "lk_pname", "lk_undo")
  \cup GetEndpointFlow("lk_child", "lk_cname", "lk_undo") \cup
  { <<"jl_icc", "rd:config", "done">>,
    <<"jl_icc", "rd:config", "panic">>,
    <<"jl_icc", "rd:config", "lk_net">>,
    <<"lk_net", "rd:network", "lk_get">>,
    <<"lk_net", "rd:network", "panic">>,
    <<"lk_get_unl", "n.Unlock", "lk_child">>,
    <<"lk_pname", "rd:config", "lk_plink">>,
    <<"lk_plink", "iptables", "lk_child">>,
    <<"lk_plink", "iptables", "lk_undo">>,
    <<"lk_cname", "rd:config", "lk_clink">>,
    <<"lk_clink", "iptables", "done">>,
    <<"lk_clink", "iptables", "lk_undo">>,
    <<"lk_undo", "iptables", "done">> }
Flow ==
  ConfigFlow \cup CreateNetworkFlow \cup DeleteNetworkFlow \cup CreateEndpointFlow
    \cup DeleteEndpointFlow \cup JoinLeaveFlow
\* Where each operation starts.
Entry ==
  [Config |-> "cfg_lock", CreateNetwork |-> "cn_lock", DeleteNetwork |-> "dn_lock",
   CreateEndpoint |-> "ce_lock", DeleteEndpoint |-> "de_lock", Join |-> "jl_icc",
   Leave |-> "jl_icc"]
\* The event a caller at this position is about to perform.
EventsAt(label) == {e[2] : e \in {f \in Flow : f[1] = label}}
\* The mutex of a lock or unlock event.
MutexOf(ev) == IF ev \in {"d.Lock", "d.Unlock"} THEN "d" ELSE "n"
\* sync.Mutex: Lock waits until nobody holds the mutex.
Free(m) == \A u \in Threads : m \notin th[u].held

\* A caller enters an operation.
LockCall(t) ==
  /\ Call(t)
  /\ \E op \in DOMAIN Entry :
       Step(t, [th[t] EXCEPT !.op = op, !.pc = Entry[op]])
  /\ UNCHANGED <<Shared, rules, scope>>
\* A caller performs the next event of its operation.
LockStep(t) ==
  /\ t \in Threads /\ Running
  /\ \E e \in Flow :
       /\ e[1] = th[t].pc
       /\ e[2] \in LockEvents => Free(MutexOf(e[2]))
       /\ Step(t, [th[t] EXCEPT
                     !.pc = e[3],
                     !.held = IF e[2] \in LockEvents THEN @ \cup {MutexOf(e[2])}
                              ELSE IF e[2] \in UnlockEvents THEN @ \ {MutexOf(e[2])}
                              ELSE @])
  /\ UNCHANGED <<Shared, pre, calls, rules, scope>>
\* Lines 739-756: generateIfaceName tries three times: the random name cannot
\* be generated or is taken (next attempt), is free (returned), or the lookup
\* fails otherwise (its error is returned); then it gives up with ErrIfaceName.
GenName(t) ==
  /\ t \in Threads /\ Running
  /\ th[t].pc \in {"ce_gen1", "ce_gen2"}
  /\ IF th[t].tries = IfaceNameAttempts
     THEN Step(t, [th[t] EXCEPT !.pc = "ce_undo", !.tries = 0, !.ret = "ErrIfaceName"])
     ELSE \/ Step(t, [th[t] EXCEPT !.tries = @ + 1])
          \/ Step(t, [th[t] EXCEPT !.tries = 0,
                        !.pc = IF th[t].pc = "ce_gen1" THEN "ce_gen2" ELSE "ce_linkadd"])
          \/ Step(t, [th[t] EXCEPT !.pc = "ce_undo", !.tries = 0, !.ret = "lookup"])
  /\ UNCHANGED <<Shared, pre, calls, rules, scope>>

(* ----------------------------- environment ----------------------------- *)
\* The sandbox is torn down: the veth pair of an endpoint whose interface was
\* handed to it disappears from the host.  With one caller at a time the
\* teardown too happens between the driver's operations.
SandboxDelete ==
  /\ Running
  /\ Conc \/ \A t \in Threads : th[t].pc = "idle"
  /\ \E l \in links :
       /\ \E h \in EpRefs(network, nets, th) : eps[h].intf.set /\ eps[h].intf.src = l.sbox
       /\ links' = links \ {l}
  /\ UNCHANGED <<config, network, nets, eps, pool4, fixed4, pool6, ports, kbridge, th, pre, calls>>
  /\ UNCHANGED <<rules, scope>>

(* ------------------------------- return -------------------------------- *)
\* The operation has returned; cells nothing refers to any more are freed.
Finish(t) ==
  /\ At(t, "done")
  /\ LET thr == [th EXCEPT ![t] = Idle]
         live == NetRefs(network, thr)
         liveEp == EpRefs(network, nets, thr)
     IN /\ th' = thr
        /\ nets' = [h \in NetH |-> IF h \in live THEN nets[h] ELSE BlankNet]
        /\ eps' = [h \in EpH |-> IF h \in liveEp THEN eps[h] ELSE BlankEp]
  /\ pre' = [pre EXCEPT ![t] =
               IF th[t].op = "CreateEndpoint" /\ th[t].ret = Nil /\ pre[t].taken
                  /\ pre[t].table = BlankNet.endpoints
               THEN [NoPre EXCEPT !.rt = [set |-> TRUE, eid |-> th[t].eid, pool4 |-> pre[t].pool4,
                                          pool6 |-> pre[t].pool6, ports |-> pre[t].ports]]
               ELSE IF th[t].op = "Join" /\ th[t].ret = Nil /\ pre[t].taken /\ ~th[t].cfg.EnableICC
               THEN [NoPre EXCEPT !.jl = [set |-> TRUE, nid |-> th[t].nid, eid |-> th[t].eid,
                                          copts |-> th[t].copts, rules |-> pre[t].rules]]
               ELSE NoPre]
  /\ UNCHANGED <<config, network, pool4, fixed4, pool6, ports, links, kbridge, calls>>
  /\ UNCHANGED <<rules, scope>>

\* The steps of the driver's operations.
Ops ==
  \E t \in ThreadIds :
       \/ Config(t)
       \/ CN_Check(t) \/ CN_Iface(t) \/ CN_Apply(t) \/ CN_Defer(t)
       \/ DN_Detach(t) \/ DN_Delete(t) \/ DN_LinkDel(t) \/ DN_Defer(t)
       \/ CE_GetNetwork(t) \/ CE_CheckNid(t) \/ CE_Lookup(t) \/ CE_Insert(t)
       \/ CE_Name1(t) \/ CE_Name2(t) \/ CE_LinkAdd(t) \/ CE_Host(t) \/ CE_Sbox(t)
       \/ CE_Attrs(t) \/ CE_Master(t) \/ CE_RequestIPv4(t) \/ CE_RequestIPv6(t)
       \/ CE_Intf(t) \/ CE_Ports(t) \/ CE_DeferLinks(t) \/ CE_DeferEndpoint(t)
       \/ DE_GetNetwork(t) \/ DE_CheckNid(t) \/ DE_Lookup(t) \/ DE_Remove(t)
       \/ DE_ReleasePorts(t) \/ DE_ReleaseIPv4(t) \/ DE_ReleaseIPv6(t) \/ DE_Link(t)
       \/ DE_Defer(t)
       \/ Finish(t)

\* The driver's operations and the environment (the sandbox).
Next == Ops \/ SandboxDelete

\* The driver's operations alone, one caller at a time.
Spec == Init /\ [][Ops]_vars
\* One caller at a time, and the sandbox.
SpecEnv == Init /\ [][Next]_vars
\* Two concurrent callers, and the sandbox.
SpecConc == InitConc /\ [][Next]_vars

\* The steps of CreateNetwork, CreateEndpoint and DeleteEndpoint.
EpOps ==
  \E t \in ThreadIds :
       \/ CN_Check(t) \/ CN_Iface(t) \/ CN_Apply(t) \/ CN_Defer(t)
       \/ CE_GetNetwork(t) \/ CE_CheckNid(t) \/ CE_Lookup(t) \/ CE_Insert(t)
       \/ CE_Name1(t) \/ CE_Name2(t) \/ CE_LinkAdd(t) \/ CE_Host(t) \/ CE_Sbox(t)
       \/ CE_Attrs(t) \/ CE_Master(t) \/ CE_RequestIPv4(t) \/ CE_RequestIPv6(t)
       \/ CE_Intf(t) \/ CE_Ports(t) \/ CE_DeferLinks(t) \/ CE_DeferEndpoint(t)
       \/ DE_GetNetwork(t) \/ DE_CheckNid(t) \/ DE_Lookup(t) \/ DE_Remove(t)
       \/ DE_ReleasePorts(t) \/ DE_ReleaseIPv4(t) \/ DE_ReleaseIPv6(t) \/ DE_Link(t)
       \/ DE_Defer(t)
       \/ Finish(t)
\* The steps of CreateNetwork, DeleteNetwork and CreateEndpoint.
LostOps ==
  \E t \in ThreadIds :
       \/ CN_Check(t) \/ CN_Iface(t) \/ CN_Apply(t) \/ CN_Defer(t)
       \/ DN_Detach(t) \/ DN_Delete(t) \/ DN_LinkDel(t) \/ DN_Defer(t)
       \/ CE_GetNetwork(t) \/ CE_CheckNid(t) \/ CE_Lookup(t) \/ CE_Insert(t)
       \/ CE_Name1(t) \/ CE_Name2(t) \/ CE_LinkAdd(t) \/ CE_Host(t) \/ CE_Sbox(t)
       \/ CE_Attrs(t) \/ CE_Master(t) \/ CE_RequestIPv4(t) \/ CE_RequestIPv6(t)
       \/ CE_Intf(t) \/ CE_Ports(t) \/ CE_DeferLinks(t) \/ CE_DeferEndpoint(t)
       \/ Finish(t)
\* Two concurrent callers that create a network with an endpoint, delete the
\* network and create it again.
SpecLost == InitLost /\ [][LostOps]_vars
\* The steps of Config and CreateNetwork.
OptOps ==
  \E t \in ThreadIds :
    \/ Config(t)
    \/ CN_Check(t) \/ CN_Iface(t) \/ CN_Apply(t) \/ CN_Defer(t)
    \/ Finish(t)
\* One caller that configures a new driver with every kind of options and
\* creates the network.
SpecOpt == InitOpt /\ [][OptOps]_vars
\* Config and its return.
CfgOps == \E t \in ThreadIds : Config(t) \/ Finish(t)
\* One caller that hands Config every kind of configuration.
SpecCfg == InitCfg /\ [][CfgOps]_vars

\* The steps of CreateNetwork.
QueueOps ==
  \E t \in ThreadIds :
    CN_Check(t) \/ CN_Iface(t) \/ CN_Apply(t) \/ CN_Defer(t) \/ Finish(t)
\* One caller that creates the network, again after a failure, for every
\* valid configuration and with and without a bridge device on the host.
SpecQueue == InitQueue /\ [][QueueOps]_vars

\* The lock level steps of the operations.
LockOps == \E t \in ThreadIds : LockCall(t) \/ LockStep(t) \/ GenName(t) \/ Finish(t)
\* Two concurrent callers, every operation at the level of its lock
\* operations, accesses and external calls.
SpecLock == InitLock /\ [][LockOps]_vars

\* One caller at a time that creates a network and creates and deletes two
\* endpoints, on a configured driver.
SpecFrame == InitFrame /\ [][EpOps]_vars

\* The steps of CreateNetwork, CreateEndpoint, Join and Leave.
LinkOps ==
  \E t \in ThreadIds :
       \/ CN_Check(t) \/ CN_Iface(t) \/ CN_Apply(t) \/ CN_Defer(t)
       \/ CE_GetNetwork(t) \/ CE_CheckNid(t) \/ CE_Lookup(t) \/ CE_Insert(t)
       \/ CE_Name1(t) \/ CE_Name2(t) \/ CE_LinkAdd(t) \/ CE_Host(t) \/ CE_Sbox(t)
       \/ CE_Attrs(t) \/ CE_Master(t) \/ CE_RequestIPv4(t) \/ CE_RequestIPv6(t)
       \/ CE_Intf(t) \/ CE_Ports(t) \/ CE_DeferLinks(t) \/ CE_DeferEndpoint(t)
       \/ Join(t) \/ Leave(t)
       \/ LK_Start(t) \/ LK_Parent(t) \/ LK_Child(t) \/ LK_Defer(t)
       \/ Finish(t)
\* One caller at a time that creates a network and endpoints and joins and
\* leaves them, on a configured driver.
SpecLink == InitLink /\ [][LinkOps]_vars
\* The same under fair scheduling: a caller that can take a step of its
\* operation eventually takes one (every external call returns).
SpecLinkFair == SpecLink /\ WF_vars(LinkOps)

\* Two concurrent callers that create a network and create and delete one
\* endpoint of it.
SpecEp == InitEp /\ [][EpOps]_vars

(* ------------------------------- claims -------------------------------- *)
IsDone(t, op) == t \in Threads /\ th[t].pc = "done" /\ th[t].op = op
\* No operation is in progress.
Quiet == \A t \in Threads : th[t].pc = "idle"
\* The endpoint table of the registered network.
Table == IF network = 0 THEN BlankNet.endpoints ELSE nets[network].endpoints
TableIds(tab) == {e \in RealEids : tab[e] # 0}
\* The errors a CreateNetwork returns before it installs its placeholder.
RejectErrors == {"ErrInvalidNetworkConfig", "ErrNetworkExists"}
StepNames(q) == {q[i] : i \in 1..Len(q)}

\* C1: under any interleaving the driver's single handler holds one network
\* or none, and a CreateNetwork issued while a network is registered returns
\* NetworkExists and leaves the handler and every network object (id, bridge,
\* endpoint table) as they were.
C1_CreateNetworkRejectedWhenRegistered ==
  [][\A t \in ThreadIds :
       (/\ t \in Threads
        /\ th[t].pc = "idle"
        /\ th'[t].op = "CreateNetwork"
        /\ th'[t].pc # "idle"
        /\ network # 0)
       => (/\ th'[t].pc = "done"
           /\ th'[t].ret = "ErrNetworkExists"
           /\ network' = network
           /\ nets' = nets
           /\ network' \in NetH)]_vars
\* A CreateNetwork was rejected while the other caller was inside an operation.
C1_Witness ==
  \E t \in Threads, u \in Threads :
    /\ IsDone(t, "CreateNetwork")
    /\ th[t].ret = "ErrNetworkExists"
    /\ network # 0
    /\ u # t
    /\ th[u].pc \notin {"idle", "done", "panic"}

\* C2: whenever CreateEndpoint returns an error after it inserted its
\* placeholder, the table holds no entry for the endpoint id and equals its
\* value at the call.
C2_FailedCreateEndpointLeavesNoEntry ==
  \A t \in Threads :
    (IsDone(t, "CreateEndpoint") /\ th[t].ret # Nil /\ th[t].inserted)
      => /\ nets[th[t].n].endpoints[th[t].eid] = 0
         /\ nets[th[t].n].endpoints = pre[t].table

\* C3: whenever CreateEndpoint returns an error after it obtained an address
\* from the allocator, the allocator's pools equal their values at the call.
C3_FailedCreateEndpointReleasesAddresses ==
  \A t \in Threads :
    (IsDone(t, "CreateEndpoint") /\ th[t].ret # Nil /\ th[t].ip4 # -1)
      => (pool4 = pre[t].pool4 /\ pool6 = pre[t].pool6)

\* C4: whenever CreateEndpoint returns an error after the veth pair was
\* created, the kernel's links equal their value at the call.
C4_FailedCreateEndpointDeletesVeth ==
  \A t \in Threads :
    (IsDone(t, "CreateEndpoint") /\ th[t].ret # Nil /\ th[t].added)
      => links = pre[t].links

\* C5 as stated: DeleteNetwork succeeds if and only if the registered
\* network's endpoint table is empty; after success the bridge link is absent
\* and no network is registered; without a network it returns NoNetwork, with
\* endpoints ActiveEndpoints.
C5_DeleteNetworkIffEmpty ==
  \A t \in Threads :
    IsDone(t, "DeleteNetwork") =>
      LET reg == pre[t].network # 0
          empty == pre[t].table = BlankNet.endpoints
      IN /\ (th[t].ret = Nil) <=> (reg /\ empty)
         /\ (th[t].ret = Nil) => (~kbridge.exists /\ network = 0)
         /\ ~reg => th[t].ret = "ErrNoNetwork"
         /\ (reg /\ ~empty) => th[t].ret = "ActiveEndpointsError"
\* C5 amended: DeleteNetwork succeeds if and only if the registered network's
\* endpoint table is empty and the deletion of the bridge link succeeds; after
\* success the bridge link is absent and no network is registered; when the
\* link deletion fails its error is returned and the network is registered
\* again; without a network it returns NoNetwork, with endpoints
\* ActiveEndpoints.
C5_DeleteNetworkIffEmptyAndLinkDeleted ==
  \A t \in Threads :
    IsDone(t, "DeleteNetwork") =>
      LET reg == pre[t].network # 0
          empty == pre[t].table = BlankNet.endpoints
      IN /\ (th[t].ret = Nil) => (reg /\ empty /\ ~kbridge.exists /\ network = 0)
         /\ (reg /\ empty) => th[t].ret \in {Nil, "netlink"}
         /\ (th[t].ret = "netlink") => (reg /\ empty /\ kbridge.exists /\ network = pre[t].network)
         /\ ~reg => th[t].ret = "ErrNoNetwork"
         /\ (reg /\ ~empty) => (th[t].ret = "ActiveEndpointsError" /\ network = pre[t].network)
\* A DeleteNetwork of a registered network has succeeded.
C5_Witness ==
  \E t \in Threads :
    IsDone(t, "DeleteNetwork") /\ th[t].ret = Nil /\ pre[t].network # 0 /\ ~kbridge.exists

\* C6: whenever CreateNetwork returns the error of a failed setup step, no
\* network is registered and the error is that step's; and a CreateNetwork
\* issued while no network is registered installs its placeholder rather than
\* being rejected with NetworkExists.
C6_FailedCreateNetworkUnregisters ==
  /\ [](\A t \in Threads :
          (IsDone(t, "CreateNetwork") /\ th[t].ret \notin RejectErrors \cup {Nil})
            => /\ network = 0
               /\ th[t].ret \in StepNames(BuildQueue(config, th[t].exists)))
  /\ [][\A t \in ThreadIds :
          (/\ t \in Threads
           /\ th[t].pc = "idle"
           /\ th'[t].op = "CreateNetwork"
           /\ th'[t].pc # "idle"
           /\ config # NoConfig
           /\ network = 0)
          => (th'[t].pc = "cn_iface" /\ network' # 0)]_vars
\* A CreateNetwork failed at its last step, after the device was created.
C6_Witness ==
  \E t \in Threads :
    /\ IsDone(t, "CreateNetwork")
    /\ th[t].ret = "setupDeviceUp"
    /\ kbridge.exists
    /\ network = 0

\* The IPv4 address lies in the bridge subnet, and in the container sub-CIDR
\* when one is configured.
InSubnet4(c, ip) ==
  /\ Contains(BridgeNet4(c), ip)
  /\ c.FixedCIDR # NoNet => Contains(c.FixedCIDR, ip)
\* C7: after any sequence of CreateEndpoint and DeleteEndpoint calls every
\* endpoint in the table holds an IPv4 address of the bridge subnet (of the
\* container sub-CIDR when configured) and no two endpoints hold the same.
C7_TableAddressesValidAndDistinct ==
  Quiet =>
    /\ \A e \in TableIds(Table) :
         /\ eps[Table[e]].intf.set
         /\ InSubnet4(config, eps[Table[e]].intf.ip4)
    /\ \A e \in TableIds(Table), f \in TableIds(Table) :
         e # f => eps[Table[e]].intf.ip4 # eps[Table[f]].intf.ip4

\* C8: after any prefix of a sequence of driver operations the endpoint ids
\* of the table are the ids whose veth is attached to the bridge, and no veth
\* the driver created is without a table entry.
C8_TableMatchesVeths ==
  Quiet =>
    /\ TableIds(Table) = {l.eid : l \in {k \in links : k.master}}
    /\ \A l \in links : l.eid \in TableIds(Table)

\* C9: whenever DeleteEndpoint returns success the endpoint id is absent from
\* the table and its addresses are released, also when the veth had been
\* removed before the call.
C9_DeletedEndpointAbsent ==
  \A t \in Threads :
    (IsDone(t, "DeleteEndpoint") /\ th[t].ret = Nil)
      => /\ nets[th[t].n].endpoints[th[t].eid] = 0
         /\ eps[th[t].ep].intf.ip4 \notin pool4
         /\ config.EnableIPv6 => eps[th[t].ep].intf.ip6 \notin pool6[eps[th[t].ep].intf.key6]

\* C10: starting from a network without endpoints, a successful CreateEndpoint
\* followed by a successful DeleteEndpoint of the same endpoint returns the
\* allocator's pools and the port mapper to what they were.
C10_CreateDeleteRoundTrip ==
  \A t \in Threads :
    (/\ IsDone(t, "DeleteEndpoint")
     /\ th[t].ret = Nil
     /\ pre[t].rt.set
     /\ pre[t].rt.eid = th[t].eid)
      => /\ pool4 = pre[t].rt.pool4
         /\ pool6 = pre[t].rt.pool6
         /\ ports = pre[t].rt.ports

\* C11: two CreateEndpoint calls of concurrent callers for the same network id
\* and endpoint id never both succeed, and once both have returned a successful
\* one has its entry in the table: the failing one has not removed it.
C11_SameEndpointCreatedOnce ==
  \A t \in Threads, u \in Threads :
    (/\ t # u
     /\ IsDone(t, "CreateEndpoint")
     /\ IsDone(u, "CreateEndpoint")
     /\ th[t].nid = th[u].nid
     /\ th[t].eid = th[u].eid
     /\ th[t].ret = Nil)
      => /\ th[u].ret # Nil
         /\ network # 0 => nets[network].endpoints[th[t].eid] # 0

\* The positions of DeleteEndpoint between the removal from the table and the
\* return: the ports, the addresses and the veth are being released.
Releasing == {"de_ports", "de_ip4", "de_ip6", "de_link", "de_defer"}
\* C12: DeleteEndpoint calls of concurrent callers for the same endpoint are
\* serialized by the lookup: the endpoint is released by one call only, no two
\* calls are both past the lookup and releasing it.
C12_SameEndpointDeletedOnce ==
  \A t \in Threads, u \in Threads :
    (/\ t # u
     /\ th[t].op = "DeleteEndpoint"
     /\ th[u].op = "DeleteEndpoint"
     /\ th[t].nid = th[u].nid
     /\ th[t].eid = th[u].eid
     /\ th[t].pc \in Releasing)
      => th[u].pc \notin Releasing

\* The Join and Leave calls that work on links: the driver has ICC disabled.
LinkCall(t, op) == IsDone(t, op) /\ pre[t].taken /\ ~th[t].cfg.EnableICC
\* C13: with ICC disabled, a Join that fails while it enables a link or
\* resolves a parent or child endpoint id has disabled every link it enabled
\* when it returns: the installed link rules are those before the call.
C13_FailedJoinRestoresRules ==
  \A t \in Threads :
    (LinkCall(t, "Join") /\ th[t].ret # Nil) => rules = pre[t].rules
\* A Join has failed after it had enabled a link.
C13_Witness ==
  \E t \in Threads :
    /\ LinkCall(t, "Join")
    /\ th[t].ret \in {"iptables", "InvalidEndpointIDError"}
    /\ th[t].undo # <<>>

\* The call follows a successful Join of the same endpoint with the same
\* parent and child lists.
AfterJoin(t) ==
  /\ pre[t].jl.set
  /\ pre[t].jl.nid = th[t].nid
  /\ pre[t].jl.eid = th[t].eid
  /\ pre[t].jl.copts = th[t].copts
\* C14: with ICC disabled, a Leave that follows a successful Join of the same
\* endpoint with the same parent and child lists removes the rules the Join
\* installed: the installed link rules are those before the Join.
C14_LeaveUndoesJoin ==
  \A t \in Threads :
    (LinkCall(t, "Leave") /\ AfterJoin(t) /\ th[t].ret = Nil) => rules = pre[t].jl.rules
\* A Leave has returned after a Join that had installed rules.
C14_Witness ==
  \E t \in Threads :
    /\ LinkCall(t, "Leave")
    /\ AfterJoin(t)
    /\ th[t].ret = Nil
    /\ pre[t].rules # pre[t].jl.rules
    /\ rules = pre[t].jl.rules

\* The endpoint of the table with this id.
EndpointOf(id) == eps[Table[id]]
\* How many links equal to l a Join on endpoint e with these lists is to
\* install: one for each listed parent when e has port bindings, one for each
\* listed child that has port bindings.
LinksWanted(l, e, co) ==
  Cardinality({i \in 1..Len(co.parents) :
                 /\ HasPortBindings(EndpointOf(e))
                 /\ l = NewLink(EndpointOf(co.parents[i]).intf.ip4, EndpointOf(e).intf.ip4,
                                EndpointOf(e).config.pb)})
  + Cardinality({i \in 1..Len(co.children) :
                 /\ HasPortBindings(EndpointOf(co.children[i]))
                 /\ l = NewLink(EndpointOf(e).intf.ip4, EndpointOf(co.children[i]).intf.ip4,
                                EndpointOf(co.children[i]).config.pb)})
\* C15: with ICC disabled, a successful Join on endpoint e has installed, on
\* top of the rules there were, one link from each listed parent to e for e's
\* port bindings when e has port bindings, one link from e to each listed
\* child that has port bindings for the child's port bindings, and no other.
C15_JoinInstallsExactlyTheLinks ==
  \A t \in Threads :
    (LinkCall(t, "Join") /\ th[t].ret = Nil)
      => \A l \in BagToSet(rules) \cup BagToSet(pre[t].rules) :
           CopiesIn(l, rules) = CopiesIn(l, pre[t].rules) + LinksWanted(l, th[t].eid, th[t].copts)
\* A Join has installed a link and none for a listed child without port
\* bindings.
C15_Witness ==
  \E t \in Threads :
    /\ LinkCall(t, "Join")
    /\ th[t].ret = Nil
    /\ rules # pre[t].rules
    /\ \E i \in 1..Len(th[t].copts.children) :
         ~HasPortBindings(EndpointOf(th[t].copts.children[i]))

\* Caller t enters Join or Leave in this step.
JoinLeaveCalled(t) ==
  /\ th[t].pc = "idle"
  /\ th'[t].pc # "idle"
  /\ th'[t].op \in {"Join", "Leave"}
\* C16: on a driver configured with ICC enabled, Join and Leave return nil at
\* once for every argument; the link rules, the endpoint table, the allocator,
\* the port mapper and everything else of the driver are left as they were,
\* and neither the network nor the endpoint is looked up.
C16_JoinLeaveNoOpWithICC ==
  [][\A t \in Threads :
       (JoinLeaveCalled(t) /\ config.set /\ config.EnableICC)
         => /\ th'[t].pc = "done"
            /\ th'[t].ret = Nil
            /\ UNCHANGED <<Shared, rules>>]_vars
\* A Join or a Leave has returned nil with ICC enabled and no network.
C16_Witness ==
  \E t \in Threads :
    /\ th[t].pc = "done"
    /\ th[t].op \in {"Join", "Leave"}
    /\ th[t].cfg.set
    /\ th[t].cfg.EnableICC
    /\ th[t].ret = Nil
    /\ network = 0

\* The invariants on a configuration, against bridge subnet br.
MtuValid(c) == c.Mtu >= 0
ContainerSubnetValid(c, br) ==
  c.FixedCIDR # NoNet => (Contains(br, c.FixedCIDR.ip) /\ c.FixedCIDR.len >= br.len)
GatewayIPv4Valid(c, br) ==
  c.DefaultGatewayIPv4 # -1 => Contains(br, c.DefaultGatewayIPv4)
GatewayIPv6Valid(c) ==
  (c.EnableIPv6 /\ c.DefaultGatewayIPv6 # -1)
    => (c.FixedCIDRv6 # NoNet6 /\ c.DefaultGatewayIPv6 \in c.FixedCIDRv6.hosts)
\* C17 as stated: the stored configuration satisfies every invariant, whatever
\* subnet the bridge is to have.
C17_StoredConfigSatisfiesInvariants ==
  config.set =>
    /\ MtuValid(config)
    /\ ContainerSubnetValid(config, BridgeNet4(config))
    /\ GatewayIPv4Valid(config, BridgeNet4(config))
    /\ GatewayIPv6Valid(config)
\* The invariants Validate can assess: those on the container sub-CIDR and on
\* the IPv4 gateway only against a configured bridge subnet.
StaticallyValid(c) ==
  /\ MtuValid(c)
  /\ c.AddressIPv4 # NoNet =>
       (ContainerSubnetValid(c, c.AddressIPv4) /\ GatewayIPv4Valid(c, c.AddressIPv4))
  /\ GatewayIPv6Valid(c)
\* C17: the stored configuration has an MTU >= 0, a container sub-CIDR and an
\* IPv4 gateway inside the configured bridge subnet when one is configured,
\* and an IPv6 gateway inside FixedCIDRv6 when IPv6 is enabled; a
\* configuration handed to an unconfigured driver is stored iff it satisfies
\* these, and is rejected with the error of an invariant it violates.
C17_StoredConfigStaticallyValid ==
  /\ config.set => StaticallyValid(config)
  /\ \A t \in Threads :
       (IsDone(t, "Config") /\ th[t].ret # "ErrConfigExists") =>
         LET c == th[t].cfg IN
         /\ th[t].ret = Nil <=> StaticallyValid(c)
         /\ th[t].ret = Nil => config = c
         /\ th[t].ret # Nil => config = NoConfig
         /\ th[t].ret \in {Nil, "ErrInvalidMtu", "ErrInvalidContainerSubnet", "ErrInvalidGateway"}
         /\ th[t].ret = "ErrInvalidMtu" => ~MtuValid(c)
         /\ th[t].ret = "ErrInvalidContainerSubnet" => ~ContainerSubnetValid(c, c.AddressIPv4)
         /\ th[t].ret = "ErrInvalidGateway" =>
              (~GatewayIPv4Valid(c, c.AddressIPv4) \/ ~GatewayIPv6Valid(c))
\* A configuration with a container sub-CIDR, an IPv4 gateway and an IPv6
\* gateway has been stored.
C17_Witness ==
  \E t \in Threads :
    /\ IsDone(t, "Config")
    /\ th[t].ret = Nil
    /\ config = th[t].cfg
    /\ config.AddressIPv4 # NoNet
    /\ config.FixedCIDR # NoNet
    /\ config.DefaultGatewayIPv4 # -1
    /\ config.EnableIPv6
    /\ config.DefaultGatewayIPv6 # -1

\* Caller t enters operation op in this step.
Called(t, op) == th[t].pc = "idle" /\ th'[t].pc # "idle" /\ th'[t].op = op
\* C18: a Config called while a configuration is stored returns
\* ErrConfigExists, and no step of any operation replaces or clears a stored
\* configuration.
C18_StoredConfigIsKept ==
  [][/\ config.set => config' = config
     /\ \A t \in Threads :
          (Called(t, "Config") /\ config.set)
            => (th'[t].pc = "done" /\ th'[t].ret = "ErrConfigExists")]_vars
\* A Config handed a valid configuration other than the stored one has
\* returned ErrConfigExists.
C18_Witness ==
  \E t \in Threads :
    /\ IsDone(t, "Config")
    /\ th[t].ret = "ErrConfigExists"
    /\ Validate(th[t].cfg) = Nil
    /\ config.set
    /\ th[t].cfg # config

\* C19: a CreateNetwork called on a driver that has no configuration returns
\* ErrInvalidNetworkConfig, whether or not a network is registered; one called
\* on a configured driver with a network registered returns ErrNetworkExists.
\* Both return at once: no placeholder is installed, no setup step is run, the
\* handler, the network objects and the bridge device are as they were.
C19_CreateNetworkPreconditions ==
  [][\A t \in Threads :
       Called(t, "CreateNetwork") =>
         /\ ~config.set =>
              (th'[t].pc = "done" /\ th'[t].ret = "ErrInvalidNetworkConfig" /\ UNCHANGED Shared)
         /\ (config.set /\ network # 0) =>
              (th'[t].pc = "done" /\ th'[t].ret = "ErrNetworkExists" /\ UNCHANGED Shared)
         /\ th'[t].ret \in RejectErrors => th'[t].pc = "done"]_vars
\* A CreateNetwork on an unconfigured driver has returned; nothing is
\* registered and no bridge device exists.
C19_Witness ==
  \E t \in Threads :
    /\ IsDone(t, "CreateNetwork")
    /\ th[t].ret = "ErrInvalidNetworkConfig"
    /\ ~config.set
    /\ network = 0
    /\ ~kbridge.exists

\* The precondition the call of t fails, in the state the call was made in:
\* the error it is to be rejected with, Nil when it passes them all.
Rejection(t) ==
  IF pre[t].network = 0 THEN "ErrNoNetwork"
  ELSE IF nets[pre[t].network].id # th[t].nid THEN "InvalidNetworkIDError"
  ELSE IF th[t].eid = "" THEN "InvalidEndpointIDError"
  ELSE IF th[t].op = "CreateEndpoint" /\ pre[t].table[th[t].eid] # 0 THEN "ErrEndpointExists"
  ELSE IF th[t].op = "CreateEndpoint" /\ th[t].opts.kind = "bad" THEN "ErrInvalidEndpointConfig"
  ELSE IF th[t].op = "DeleteEndpoint" /\ pre[t].table[th[t].eid] = 0 THEN "EndpointNotFoundError"
  ELSE Nil
\* The errors of the precondition checks of CreateEndpoint and DeleteEndpoint.
PreconditionErrors ==
  {"ErrNoNetwork", "InvalidNetworkIDError", "InvalidEndpointIDError", "ErrEndpointExists",
   "ErrInvalidEndpointConfig", "EndpointNotFoundError"}
\* The endpoint table, the allocator, the port mapper and the veth pairs are
\* as they were when t made its call.
Untouched(t) ==
  /\ network = pre[t].network
  /\ Table = pre[t].table
  /\ pool4 = pre[t].pool4
  /\ pool6 = pre[t].pool6
  /\ ports = pre[t].ports
  /\ links = pre[t].links
\* C20: a CreateEndpoint or DeleteEndpoint whose request fails a precondition
\* (no network, another network id, an empty endpoint id, an endpoint id
\* already in the table or ill-typed options for a create, an endpoint id not
\* in the table for a delete) returns the error of the first one it fails and
\* leaves the endpoint table, the allocator, the port mapper and the veth
\* pairs as they were; it returns such an error in no other case.
C20_PreconditionsRejectWithoutEffect ==
  \A t \in Threads :
    (pre[t].taken /\ (IsDone(t, "CreateEndpoint") \/ IsDone(t, "DeleteEndpoint"))) =>
      /\ Rejection(t) # Nil => (th[t].ret = Rejection(t) /\ Untouched(t))
      /\ th[t].ret \in PreconditionErrors => th[t].ret = Rejection(t)
\* A CreateEndpoint for an endpoint id of the table has been rejected while
\* addresses were allocated.
C20_Witness ==
  \E t \in Threads :
    /\ pre[t].taken
    /\ IsDone(t, "CreateEndpoint")
    /\ th[t].ret = "ErrEndpointExists"
    /\ Table[th[t].eid] # 0
    /\ pool4 # {}
    /\ Untouched(t)

\* C21: a successful CreateEndpoint returns an info with one interface: its
\* source name is the sandbox side of the endpoint's veth pair, its
\* destination name eth0, its IPv4 address the allocated one with the bridge's
\* mask, and it has an IPv6 address iff IPv6 is enabled; the gateways are the
\* bridge's, the IPv6 one only when IPv6 is enabled; the interface is the one
\* stored on the endpoint of the table.
C21_CreateEndpointReturnsInterface ==
  \A t \in Threads :
    (IsDone(t, "CreateEndpoint") /\ th[t].ret = Nil) =>
      /\ th[t].sinfo.set
      /\ Len(th[t].sinfo.interfaces) = 1
      /\ LET h == th[t].sinfo.interfaces[1]
             f == eps[h].intf
             b == nets[network].bridge
         IN /\ Table[th[t].eid] = h
            /\ f.set
            /\ \E l \in links : l.cell = h /\ l.sbox = f.src /\ l.host # f.src
            /\ f.dst = "eth0"
            /\ f.ip4 = th[t].ip4
            /\ f.ip4 \in pool4
            /\ f.mask4 = BridgeNet4(config).len
            /\ (f.ip6 # -1) <=> config.EnableIPv6
            /\ config.EnableIPv6 => f.ip6 \in pool6[f.key6]
            /\ th[t].sinfo.gateway = b.gatewayIPv4
            /\ th[t].sinfo.gatewayIPv6 = IF config.EnableIPv6 THEN b.gatewayIPv6 ELSE -1
\* A CreateEndpoint has returned an interface with an IPv6 address and an
\* IPv6 gateway.
C21_Witness ==
  \E t \in Threads :
    /\ IsDone(t, "CreateEndpoint")
    /\ th[t].ret = Nil
    /\ th[t].sinfo.set
    /\ config.EnableIPv6
    /\ th[t].sinfo.gatewayIPv6 # -1
    /\ eps[th[t].sinfo.interfaces[1]].intf.ip6 # -1

\* The MAC in bytes 10..15 of an IPv6 address: its six low-order bytes.
LowBytes6(a) == NumHosts6 - a + 1
\* The call has made its IPv6 request.
RequestedIPv6(t) ==
  /\ th[t].op = "CreateEndpoint"
  /\ th[t].cfg.EnableIPv6
  /\ th[t].pc \in {"ce_intf", "ce_ports", "done"}
  /\ th[t].mac # 0
  /\ th[t].ip4 # -1
\* C22: with IPv6 enabled CreateEndpoint requests the IPv6 address from
\* FixedCIDRv6 when configured, else from the bridge's IPv6 subnet; for a
\* prefix of at most 80 bits the hint is the address of that subnet with the
\* elected MAC in its low-order bytes, for a longer prefix there is none; an
\* address obtained while the hinted one was free has the MAC in its
\* low-order bytes.
C22_IPv6HintFromMac ==
  \A t \in Threads :
    (pre[t].taken /\ RequestedIPv6(t)) =>
      LET c == th[t].cfg
          net == IF c.FixedCIDRv6 # NoNet6 THEN c.FixedCIDRv6 ELSE BridgeNet6
          key == IF c.FixedCIDRv6 # NoNet6 THEN "fixed6" ELSE "bridge6"
      IN /\ (th[t].hint # 0) <=> (net.ones <= 80)
         /\ th[t].hint # 0 => LowBytes6(th[t].hint) = th[t].mac
         /\ th[t].ip6 # -1 =>
              /\ th[t].ip6 \in net.hosts
              /\ th[t].ip6 \in pool6[key] \ pre[t].pool6[key]
              /\ (th[t].hint \in net.hosts \ pre[t].pool6[key]) => LowBytes6(th[t].ip6) = th[t].mac
\* An endpoint has obtained the IPv6 address that carries its MAC.
C22_Witness ==
  \E t \in Threads :
    /\ pre[t].taken
    /\ IsDone(t, "CreateEndpoint")
    /\ th[t].ret = Nil
    /\ th[t].cfg.EnableIPv6
    /\ th[t].hint # 0
    /\ th[t].ip6 = th[t].hint
    /\ LowBytes6(eps[th[t].ep].intf.ip6) = th[t].mac

\* Caller t returns from operation op in this step.
Returns(t, op) == th[t].op = op /\ th[t].pc # "done" /\ th'[t].pc = "done"
\* The errors of a DeleteNetwork that had a network to delete.
DeleteNetworkErrors == {"ActiveEndpointsError", "netlink"}
\* C23: when a DeleteNetwork returns ActiveEndpointsError or the error of the
\* bridge link deletion, the network it detached is registered again, unless
\* a network is registered at that moment, which then stays; no step of
\* DeleteNetwork changes a network object or an endpoint.
C23_FailedDeleteNetworkRestores ==
  [][\A t \in Threads :
       /\ (Returns(t, "DeleteNetwork") /\ th'[t].ret \in DeleteNetworkErrors) =>
            /\ th[t].n # 0
            /\ network = 0 => network' = th[t].n
            /\ network # 0 => network' = network
       /\ (th'[t] # th[t] /\ th'[t].op = "DeleteNetwork") => (nets' = nets /\ eps' = eps)]_vars
\* A DeleteNetwork has failed while another caller had installed a network:
\* that one is registered, not the detached one.
C23_Witness ==
  \E t \in Threads :
    /\ IsDone(t, "DeleteNetwork")
    /\ th[t].ret \in DeleteNetworkErrors
    /\ th[t].n # 0
    /\ network # 0
    /\ network # th[t].n

\* C24: a DeleteEndpoint that returns an error after it removed the endpoint
\* from the table has put it back: with one caller at a time the endpoint id
\* maps to the original endpoint again when the call returns.
C24_FailedDeleteEndpointRestores ==
  \A t \in Threads :
    (IsDone(t, "DeleteEndpoint") /\ th[t].removed /\ th[t].ret # Nil)
      => nets[th[t].n].endpoints[th[t].eid] = th[t].ep

\* Caller t takes a step of CreateEndpoint or DeleteEndpoint.
EndpointStep(t) ==
  /\ th'[t] # th[t]
  /\ th'[t].pc # "idle"
  /\ th'[t].op \in {"CreateEndpoint", "DeleteEndpoint"}
\* The veth pairs created for endpoint object h.
VethsOf(ls, h) == {l \in ls : l.cell = h}
\* C25: no step of a CreateEndpoint or DeleteEndpoint on endpoint id A adds,
\* removes or replaces the table entry of another endpoint id B, changes B's
\* endpoint object, allocates or releases B's IPv4 address or host port, or
\* creates or deletes B's veth pair.
C25_OtherEndpointUntouched ==
  [][\A t \in Threads :
       EndpointStep(t) =>
         \A b \in RealEids \ {th'[t].eid} :
           LET h == Table[b] IN
           /\ Table'[b] = h
           /\ h # 0 =>
                /\ eps'[h] = eps[h]
                /\ eps[h].intf.set => ((eps[h].intf.ip4 \in pool4') <=> (eps[h].intf.ip4 \in pool4))
                /\ eps[h].portMapping # 0 =>
                     ((eps[h].portMapping \in ports') <=> (eps[h].portMapping \in ports))
                /\ VethsOf(links', h) = VethsOf(links, h)]_vars


\* The events thread t is about to perform.
NextEvents(t) == EventsAt(th[t].pc)
\* C26: in every reachable state of two concurrent callers no thread holds
\* the driver lock and a network lock together, no thread holds a lock when
\* it is about to call netlink, the IP allocator, the port mapper or the
\* firewall (or to generate an interface name, which looks the name up through
\* netlink), no thread waits for a lock while it holds one, and no lock has
\* two holders: a holder of a lock is never blocked, so no wait for the driver
\* or a network lock is a deadlock.
C26_LockDiscipline ==
  /\ \A t \in Threads :
       /\ Cardinality(th[t].held) <= 1
       /\ NextEvents(t) \cap ExternalEvents # {} => th[t].held = {}
       /\ th[t].pc \in {"ce_gen1", "ce_gen2"} => th[t].held = {}
       /\ NextEvents(t) \cap LockEvents # {} => th[t].held = {}
       /\ th[t].pc \in {"idle", "done"} => th[t].held = {}
  /\ \A t, u \in Threads : t # u => th[t].held \cap th[u].held = {}
\* One caller holds the network lock inside CreateEndpoint's insertion while
\* the other is about to call the port mapper.
C26_Witness ==
  \E t, u \in Threads :
    /\ th[t].pc = "ce_ins1" /\ th[t].held = {"n"}
    /\ th[u].pc = "de_unmap" /\ th[u].held = {}


\* C27: under fair scheduling, with every external call returning, every
\* operation that was invoked eventually returns (with success or an error)
\* and holds no lock then.
C27_EveryCallReturns ==
  \A t \in ThreadIds :
    (t \in Threads /\ th[t].pc # "idle")
      ~> (t \in Threads /\ th[t].pc = "done" /\ th[t].held = {})


\* The setup steps in the order CreateNetwork queues them.
StepOrder ==
  <<"setupDevice", "setupBridgeIPv4", "setupBridgeIPv6", "setupVerifyAndReconcile",
    "setupFixedCIDRv4", "setupFixedCIDRv6", "setupIPTables", "setupIPForwarding",
    "setupGatewayIPv4", "setupGatewayIPv6", "setupDeviceUp">>
\* The condition of each step.
StepCondition(c, bridgeAlreadyExists) ==
  [setupDevice |-> ~bridgeAlreadyExists,
   setupBridgeIPv4 |-> ~bridgeAlreadyExists,
   setupBridgeIPv6 |-> c.EnableIPv6,
   setupVerifyAndReconcile |-> bridgeAlreadyExists,
   setupFixedCIDRv4 |-> c.FixedCIDR # NoNet,
   setupFixedCIDRv6 |-> c.FixedCIDRv6 # NoNet6,
   setupIPTables |-> c.EnableIPTables,
   setupIPForwarding |-> c.EnableIPForwarding,
   setupGatewayIPv4 |-> c.DefaultGatewayIPv4 # -1,
   setupGatewayIPv6 |-> c.DefaultGatewayIPv6 # -1,
   setupDeviceUp |-> TRUE]
\* Thread t is in CreateNetwork with its steps queued.
Queued(t) == th[t].op = "CreateNetwork" /\ th[t].pc \in {"cn_apply", "cn_defer"}
\* C28: for every configuration, with and without a bridge device, the queue
\* CreateNetwork applies is the sequence setupDevice ... setupDeviceUp
\* filtered by the conditions of the steps: setupDevice and setupBridgeIPv4 iff
\* the bridge did not exist, setupVerifyAndReconcile iff it did (never with
\* setupDevice), every other step iff its flag or value is set, setupDeviceUp
\* always and last.
C28_StepQueue ==
  \A t \in Threads :
    Queued(t) =>
      LET q == th[t].todo
          cond == StepCondition(th[t].cfg, th[t].exists)
          Keep(x) == cond[x]
      IN /\ q = SelectSeq(StepOrder, Keep)
         /\ q[Len(q)] = "setupDeviceUp"
         /\ ~({"setupDevice", "setupVerifyAndReconcile"} \subseteq StepNames(q))
         /\ "setupDevice" \in StepNames(q) <=> ~th[t].exists
         /\ "setupVerifyAndReconcile" \in StepNames(q) <=> th[t].exists
\* A queue for a new bridge with every step but setupVerifyAndReconcile.
C28_Witness ==
  \E t \in Threads : Queued(t) /\ ~th[t].exists /\ Len(th[t].todo) = 10


\* The names of the steps that follow setupDevice in queue q.
AfterSetupDevice(q) == StepNames(q) \ {"setupDevice"}
\* C29: a CreateNetwork that created the bridge device with setupDevice and
\* fails at a later step returns with the device still there (no step of
\* CreateNetwork removes an existing device), and a CreateNetwork that looks
\* the device up while it exists finds it, queues neither setupDevice nor
\* setupBridgeIPv4 and queues setupVerifyAndReconcile.
C29_FailedCreateKeepsBridge ==
  [][\A t \in Threads :
       /\ (Returns(t, "CreateNetwork") /\ ~th[t].exists
             /\ th'[t].ret \in AfterSetupDevice(th[t].todo))
            => kbridge'.exists
       /\ kbridge.exists => kbridge'.exists
       /\ (th[t].pc = "cn_iface" /\ th'[t].pc = "cn_apply" /\ kbridge.exists)
            => /\ th'[t].exists
               /\ StepNames(th'[t].todo) \cap {"setupDevice", "setupBridgeIPv4"} = {}
               /\ "setupVerifyAndReconcile" \in StepNames(th'[t].todo)]_vars
\* The second CreateNetwork has queued setupVerifyAndReconcile for a device
\* that the failed first one created: it is not up, the device of an earlier
\* run is.
C29_Witness ==
  \E t \in Threads :
    /\ calls = 2 /\ network # 0
    /\ th[t].op = "CreateNetwork" /\ th[t].pc = "cn_apply"
    /\ th[t].exists /\ kbridge.exists /\ ~kbridge.up
    /\ "setupVerifyAndReconcile" \in StepNames(th[t].todo)
    /\ "setupDevice" \notin StepNames(th[t].todo)


\* The field an access event reads or writes.
FieldOf ==
  [ev \in DriverAccesses \cup NetworkAccesses |->
     IF ev \in {"rd:config", "wr:config"} THEN "config"
     ELSE IF ev \in {"rd:network", "wr:network"} THEN "network"
     ELSE IF ev = "rd:id" THEN "id" ELSE "endpoints"]
\* Thread t is about to perform access ev without the mutex that guards it.
Unprotected(t, ev) ==
  /\ ev \in NextEvents(t)
  /\ \/ ev \in DriverAccesses /\ "d" \notin th[t].held
     \/ ev \in NetworkAccesses /\ "n" \notin th[t].held
\* C30: every read or write of the driver's config and network pointer is
\* made with the driver mutex held, every read or write of a network's
\* endpoint table and id with the network's mutex held, and no unprotected
\* access is concurrent with a write of the same field.
C30_AccessesUnderLock ==
  /\ \A t \in Threads : \A ev \in DriverAccesses \cup NetworkAccesses : ~Unprotected(t, ev)
  /\ \A t, u \in Threads :
       \A ev \in DriverAccesses \cup NetworkAccesses, w \in WriteEvents :
         ~(t # u /\ Unprotected(t, ev) /\ w \in NextEvents(u) /\ FieldOf[ev] = FieldOf[w])


\* C33: the two names CreateEndpoint has generated for a veth pair differ from
\* each other and from every interface name on the host, and a CreateEndpoint
\* that gives up generating a name returns ErrIfaceName or the lookup's error.
C33_VethNamesDistinct ==
  \A t \in Threads :
    th[t].pc = "ce_linkadd" =>
      /\ th[t].name1 # th[t].name2
      /\ {th[t].name1, th[t].name2} \cap IfNames(links) = {}


\* C31: with concurrent callers, DeleteNetwork never holds a detached network
\* whose bridge interface the CreateNetwork in progress has not set yet, and
\* CreateNetwork never dereferences a network pointer a concurrent
\* DeleteNetwork has cleared.
C31_CreateDeleteSerialized ==
  \A t \in Threads :
    /\ (th[t].op = "DeleteNetwork" /\ th[t].pc \in {"dn_delete", "dn_linkdel", "panic"} /\ th[t].n # 0)
         => nets[th[t].n].bridge.set
    /\ ~(th[t].op = "CreateNetwork" /\ th[t].pc = "panic")
\* C32: the rollback of a failing CreateNetwork clears the driver's network
\* pointer only if it still refers to the placeholder the call installed; a
\* network another caller registered meanwhile stays registered.
C32_RollbackOnlyOwnPlaceholder ==
  [][\A t \in Threads :
       (Returns(t, "CreateNetwork") /\ th[t].pc = "cn_defer" /\ network # th[t].n)
         => network' = network]_vars


\* C34: a DeleteNetwork and a CreateEndpoint on the same network never both
\* succeed: no caller has returned success from DeleteNetwork for a network
\* into whose table another caller's successful CreateEndpoint has put an
\* endpoint.
C34_NoEndpointInDeletedNetwork ==
  \A t, u \in Threads :
    ~(/\ IsDone(t, "DeleteNetwork") /\ th[t].ret = Nil
      /\ IsDone(u, "CreateEndpoint") /\ th[u].ret = Nil
      /\ th[t].n # 0 /\ th[u].n = th[t].n
      /\ nets[th[u].n].endpoints[th[u].eid] = th[u].ep)


\* C35: a DeleteNetwork that fails with ActiveEndpoints on a network that has
\* endpoints returns with that network, endpoints included, registered in
\* the driver again: no CreateNetwork has taken its place meanwhile.
C35_NetworkWithEndpointsKept ==
  [][\A t \in Threads :
       (/\ Returns(t, "DeleteNetwork") /\ th'[t].ret = "ActiveEndpointsError"
        /\ \E e \in RealEids : nets[th[t].n].endpoints[e] # 0)
         => network' = th[t].n]_vars


\* C36: a DeleteEndpoint, Join or Leave never dereferences the unset
\* interface of an endpoint whose CreateEndpoint is still in progress.
C36_PlaceholderNotDereferenced ==
  \A t, u \in Threads :
    ~(/\ th[t].op \in {"DeleteEndpoint", "Join", "Leave"} /\ th[t].pc = "panic"
      /\ th[u].op = "CreateEndpoint" /\ th[u].pc \notin {"idle", "done", "panic"}
      /\ th[t].ep # 0 /\ th[u].ep = th[t].ep
      /\ ~eps[th[t].ep].intf.set)


\* C37: when a DeleteEndpoint that had taken the endpoint out of the table
\* returns an error, the port mapper, the allocator's pools and the links of
\* the host are what they were at the call: the endpoint still holds its port
\* bindings, its IPv4 and IPv6 addresses and its veth.
C37_FailedDeleteKeepsResources ==
  \A t \in Threads :
    (IsDone(t, "DeleteEndpoint") /\ th[t].removed /\ th[t].ret # Nil /\ pre[t].taken)
      => /\ ports = pre[t].ports
         /\ pool4 = pre[t].pool4
         /\ pool6 = pre[t].pool6
         /\ links = pre[t].links


\* C38: Join and Leave never reach a nil dereference: without a stored
\* configuration, or with ICC disabled and no network registered, they return
\* an error to the caller.
C38_JoinLeaveNeverCrash ==
  \A t \in Threads : th[t].op \in {"Join", "Leave"} => th[t].pc # "panic"


\* The options of this Config carry a configuration that decodes and is valid.
Storable(gd, c) == gd \in {"generic", "config"} /\ Validate(c) = Nil
\* C39: on an unconfigured driver Config stores a configuration exactly when
\* the options carry GenericData of a recognized type that decodes and passes
\* validation, and then stores that one; without GenericData it returns nil,
\* with GenericData of another type, a failed decoding or a failed validation
\* it returns an error, and in these cases the driver stays unconfigured; a
\* CreateNetwork on the unconfigured driver returns ErrInvalidNetworkConfig.
C39_ConfigStoresOnlyValid ==
  [][\A t \in Threads :
       /\ (Called(t, "Config") /\ ~config.set) =>
            /\ th'[t].pc = "done"
            /\ IF Storable(th'[t].gd, th'[t].cfg)
               THEN config' = th'[t].cfg /\ th'[t].ret = Nil
               ELSE /\ config' = NoConfig
                    /\ th'[t].ret = Nil <=> th'[t].gd = "absent"
       /\ (Called(t, "CreateNetwork") /\ ~config.set) =>
            (th'[t].pc = "done" /\ th'[t].ret = "ErrInvalidNetworkConfig")]_vars
\* The third call is a Config that succeeds and stores its configuration: the
\* two calls before it left the driver unconfigured.
C39_Witness ==
  \E t \in Threads :
    /\ calls = 3
    /\ IsDone(t, "Config") /\ th[t].ret = Nil /\ th[t].gd = "generic"
    /\ config = th[t].cfg /\ config.set


\* C40: DeleteNetwork acts on the registered network whatever its argument:
\* it detaches the registered network, and what it returns is decided by that
\* network alone (none: ErrNoNetwork; with endpoints: ActiveEndpointsError;
\* else the result of the link deletion), never InvalidNetworkID.
C40_DeleteNetworkIgnoresId ==
  [][\A t \in Threads :
       /\ Called(t, "DeleteNetwork") =>
            (th'[t].pc = "dn_delete" /\ th'[t].n = network /\ network' = 0)
       /\ Returns(t, "DeleteNetwork") =>
            /\ th'[t].ret \in {Nil, "ErrNoNetwork", "ActiveEndpointsError", "netlink"}
            /\ th'[t].ret = "ErrNoNetwork" <=> th[t].n = 0
            /\ th'[t].ret = "ActiveEndpointsError" <=>
                 (th[t].n # 0 /\ \E e \in RealEids : nets[th[t].n].endpoints[e] # 0)]_vars
\* A DeleteNetwork called with another id than the registered network's has
\* deleted the network.
C40_Witness ==
  \E t \in Threads :
    /\ IsDone(t, "DeleteNetwork") /\ th[t].ret = Nil
    /\ th[t].n # 0 /\ nets[th[t].n].id # th[t].nid
    /\ network = 0 /\ ~kbridge.exists

====
